---- MODULE Spec2Model ----
(***************************************************************************)
(* Kwami agent: live reconfiguration of a voice session.                   *)
(*                                                                         *)
(* The model follows agent/src/session.py (SessionState),                  *)
(* agent/src/handlers/config_handler.py (the delta handlers),              *)
(* agent/src/utils/provider.py (provider inference) and                    *)
(* agent/src/main.py (entrypoint, handle_data, create_agent_from_config).  *)
(*                                                                         *)
(* Every handler runs as its own asyncio task on one event loop, so an     *)
(* action is the code between two points where the task really suspends:   *)
(* the memory open in handle_full_config, memory.close() in                *)
(* _cleanup_memory, and the awaits of cleanup().                           *)
(***************************************************************************)
EXTENDS Integers, Sequences, FiniteSets, TLC

VARIABLES
    agents,              \* heap of KwamiAgent objects, an agent is its index
    personas,            \* heap of KwamiPersonaConfig objects
    memories,            \* heap of KwamiMemory objects (the MemoryHandles)
    tasks,               \* heap of asyncio tasks running _cleanup_memory
    current_agent,       \* SessionState.current_agent
    user_identity,       \* SessionState.user_identity
    room_name,           \* SessionState.room_name
    greeting_delivered,  \* SessionState.greeting_delivered
    _cleanup_tasks,      \* SessionState._cleanup_tasks
    usage,               \* SessionState.usage_tracker._usage
    session_agent,       \* the agent the AgentSession runs
    pending_full,        \* handle_full_config tasks suspended in create_memory
    cleanup_pc,          \* where SessionState.cleanup() stands
    cleanup_awaited,     \* the tasks cleanup() handed to asyncio.gather
    zep_api_key,         \* whether ZEP_API_KEY is set in the environment
    internal_api_key,    \* whether INTERNAL_API_KEY is set in the environment
    callers,             \* the threads inside UsageTracker and what they hold
    report_log,          \* history: the calls of UsageReporter.report
    delta_log,           \* history: the kind of each delta handle_data has dispatched
    factory_log,         \* history: the calls of create_agent_from_config
    swap_log,            \* history: the calls of SessionState.update_agent
    live_updates,        \* history: the calls of tts/stt update_options
    instruction_updates, \* history: the calls of agent.update_instructions
    last_op,             \* history: the delta handler that ran last, and how it ended
    probe                \* a call of a provider.py function: its arguments and result

vars == <<agents, personas, memories, tasks, current_agent, user_identity,
          room_name, greeting_delivered, _cleanup_tasks, usage, session_agent,
          pending_full, cleanup_pc, cleanup_awaited, zep_api_key, internal_api_key,
          report_log, callers, probe, delta_log,
          factory_log, swap_log, live_updates, instruction_updates, last_op>>

(***************************************************************************)
(* Bounds of the model.                                                    *)
(***************************************************************************)
MaxDeltas == 2

(***************************************************************************)
(* Python values.  None is a value of its own; a payload (a JSON object)   *)
(* is a record whose domain is the set of keys present.  Numbers with one  *)
(* decimal are kept in tenths (1.0 is 10).                                 *)
(***************************************************************************)
None == "<None>"
NoAgent == 0
NoMemory == 0
ElevenLabsMinLen == 20
UuidLen == 36
UuidHyphens == 4

Truthy(v) == v # None /\ v # ""
Has(d, k) == k \in DOMAIN d
Get(d, k) == IF Has(d, k) THEN d[k] ELSE None
GetTruthy(d, k) == Has(d, k) /\ Truthy(d[k])
GetNumber(d, k) == Has(d, k) /\ d[k] # 0
EmptyDict == [x \in {} |-> None]
\* a JSON array where an object is expected: .get() raises AttributeError
NotADict == [__list__ |-> TRUE]
IsDict(v) == ~Has(v, "__list__")
GetDict(d, k) == IF Has(d, k) THEN d[k] ELSE EmptyDict

(***************************************************************************)
(* utils/provider.py                                                       *)
(***************************************************************************)
startswith(s, prefix) ==
    Len(s) >= Len(prefix) /\ SubSeq(s, 1, Len(prefix)) = prefix

strip_model_prefix(model, provider) ==
    IF ~Truthy(model) THEN ""
    ELSE IF startswith(model, provider \o "/")
         THEN SubSeq(model, Len(provider) + 2, Len(model))
         ELSE model

\* str.lower() and str.isalnum(), character by character
UpperCase == "ABCDEFGHIJKLMNOPQRSTUVWXYZ"
LowerCase == "abcdefghijklmnopqrstuvwxyz"
Digits == "0123456789"
CharIn(c, alphabet) == \E i \in 1..Len(alphabet) : SubSeq(alphabet, i, i) = c
LowerChar(c) ==
    IF CharIn(c, UpperCase)
    THEN LET i == CHOOSE j \in 1..Len(UpperCase) : SubSeq(UpperCase, j, j) = c
         IN SubSeq(LowerCase, i, i)
    ELSE c
RECURSIVE lower(_)
lower(s) ==
    IF Len(s) = 0 THEN ""
    ELSE LowerChar(SubSeq(s, 1, 1)) \o lower(SubSeq(s, 2, Len(s)))
isalnum(s) ==
    /\ Len(s) > 0
    /\ \A i \in 1..Len(s) :
          \/ CharIn(SubSeq(s, i, i), UpperCase)
          \/ CharIn(SubSeq(s, i, i), LowerCase)
          \/ CharIn(SubSeq(s, i, i), Digits)
count(s, c) == Cardinality({i \in 1..Len(s) : SubSeq(s, i, i) = c})

OPENAI_VOICES ==
    {"alloy", "ash", "coral", "echo", "fable", "nova", "onyx", "sage", "shimmer"}

\* the providers whose "provider/" prefix is recognised, in the order tried
PrefixProviders == <<"elevenlabs", "openai", "cartesia", "deepgram", "google", "rime">>

detect_tts_provider_from_model(model) ==
    IF ~Truthy(model) THEN None
    ELSE LET model_lower == lower(model)
             hits == {i \in 1..Len(PrefixProviders) :
                         startswith(model_lower, PrefixProviders[i] \o "/")}
         IN IF hits # {}
            THEN PrefixProviders[CHOOSE i \in hits : \A j \in hits : i <= j]
            ELSE IF startswith(model_lower, "eleven_") \/ startswith(model_lower, "eleven-")
            THEN "elevenlabs"
            ELSE IF startswith(model_lower, "tts-") \/ startswith(model_lower, "gpt-4o")
            THEN "openai"
            ELSE IF startswith(model_lower, "sonic") THEN "cartesia"
            ELSE IF startswith(model_lower, "aura") THEN "deepgram"
            ELSE IF startswith(model_lower, "arcana") \/ startswith(model_lower, "mistv")
            THEN "rime"
            ELSE None

\* variant: a long id counts as an ElevenLabs id whatever its characters
detect_tts_provider_from_voice_by_length(voice) ==
    IF ~Truthy(voice) THEN None
    ELSE IF Len(voice) >= ElevenLabsMinLen THEN "elevenlabs"
    ELSE IF Len(voice) = UuidLen /\ count(voice, "-") = UuidHyphens THEN "cartesia"
    ELSE IF lower(voice) \in OPENAI_VOICES THEN "openai"
    ELSE None

detect_tts_provider_from_voice(voice) ==
    IF ~Truthy(voice) THEN None
    ELSE IF Len(voice) >= ElevenLabsMinLen /\ isalnum(voice) THEN "elevenlabs"
    ELSE IF Len(voice) = UuidLen /\ count(voice, "-") = UuidHyphens THEN "cartesia"
    ELSE IF lower(voice) \in OPENAI_VOICES THEN "openai"
    ELSE None

\* variant: the voice is tried first and the model only when the voice
\* names no provider
detect_provider_change_voice_first(current_provider, new_model, new_voice) ==
    LET voice_provider == IF Truthy(new_voice)
                          THEN detect_tts_provider_from_voice(new_voice)
                          ELSE None
        model_provider == IF Truthy(new_model)
                          THEN detect_tts_provider_from_model(new_model)
                          ELSE None
        detected_provider == IF Truthy(voice_provider) THEN voice_provider
                             ELSE IF Truthy(model_provider) THEN model_provider
                             ELSE current_provider
    IN <<detected_provider, detected_provider # current_provider>>

\* returns <<detected_provider, has_changed>>
detect_provider_change(current_provider, new_model, new_voice) ==
    LET model_provider == IF Truthy(new_model)
                          THEN detect_tts_provider_from_model(new_model)
                          ELSE None
        after_model == IF Truthy(model_provider) THEN model_provider
                       ELSE current_provider
        voice_provider == IF after_model = current_provider /\ Truthy(new_voice)
                          THEN detect_tts_provider_from_voice(new_voice)
                          ELSE None
        detected_provider == IF Truthy(voice_provider) THEN voice_provider
                             ELSE after_model
    IN <<detected_provider, detected_provider # current_provider>>

(***************************************************************************)
(* config.py: the defaults of a fresh KwamiConfig().  The persona is an    *)
(* object of its own (dataclasses.replace copies a KwamiConfig shallowly,  *)
(* so replaced configs share it); the voice config is copied by every      *)
(* handler that changes it, so it is kept inside the config.               *)
(***************************************************************************)
KwamiPersonaConfig ==
    [name |-> "Kwami", personality |-> "A friendly and helpful AI companion",
     system_prompt |-> "", traits |-> <<>>, language |-> "en",
     conversation_style |-> "friendly",
     response_length |-> "medium", emotional_tone |-> "warm"]

KwamiVoiceConfig ==
    [stt_provider |-> "deepgram", stt_model |-> "nova-2", stt_language |-> "en",
     llm_provider |-> "openai", llm_model |-> "gpt-4o-mini",
     llm_temperature |-> 7, llm_max_tokens |-> 1024,
     tts_provider |-> "openai", tts_model |-> "tts-1", tts_voice |-> "nova",
     tts_speed |-> 10]

\* persona is the persona object itself until the agent is constructed
KwamiConfig ==
    [kwami_id |-> "", kwami_name |-> "Kwami", persona |-> KwamiPersonaConfig,
     voice |-> KwamiVoiceConfig,
     memory |-> [enabled |-> zep_api_key, user_id |-> ""]]

(***************************************************************************)
(* agent.py: KwamiAgent._build_system_prompt, the part built from the      *)
(* persona (the fixed guidance that follows it is the same in every        *)
(* prompt).                                                                *)
(***************************************************************************)
RECURSIVE join(_, _)
join(sep, parts) ==
    IF Len(parts) = 0 THEN ""
    ELSE IF Len(parts) = 1 THEN parts[1]
    ELSE parts[1] \o sep \o join(sep, Tail(parts))

length_guide ==
    [short |-> "Keep responses brief and concise (1-2 sentences).",
     medium |-> "Provide balanced responses with enough detail (2-4 sentences).",
     long |-> "Give comprehensive, detailed responses when appropriate."]
tone_guide ==
    [neutral |-> "Maintain a balanced, objective tone.",
     warm |-> "Express warmth and friendliness in your interactions.",
     enthusiastic |-> "Show enthusiasm and energy in your responses.",
     calm |-> "Maintain a calm, soothing demeanor."]

_build_system_prompt(persona) ==
    join("\n",
         <<IF Truthy(persona.system_prompt) THEN persona.system_prompt
           ELSE "You are " \o persona.name \o ", " \o persona.personality \o ".">>
         \o (IF Len(persona.traits) > 0
             THEN <<"\nKey traits: " \o join(", ", persona.traits)>> ELSE <<>>)
         \o (IF Truthy(persona.conversation_style)
             THEN <<"\nConversation style: " \o persona.conversation_style>> ELSE <<>>)
         \o (IF Has(length_guide, persona.response_length)
             THEN <<"\n" \o length_guide[persona.response_length]>> ELSE <<>>)
         \o (IF Has(tone_guide, persona.emotional_tone)
             THEN <<"\n" \o tone_guide[persona.emotional_tone]>> ELSE <<>>))

(***************************************************************************)
(* factories/tts.py: which TTS class create_tts builds.  ElevenLabs goes   *)
(* through LiveKit Inference; "rime" and unknown providers end in the      *)
(* OpenAI fallback (TTSProviders has no RIME attribute, the AttributeError *)
(* is caught by create_tts).                                               *)
(***************************************************************************)
create_tts(voice_config) ==
    LET provider == lower(voice_config.tts_provider)
    IN IF provider = "elevenlabs"
       THEN [module |-> "livekit.agents.inference.tts",
             model |-> "elevenlabs/" \o
                 (IF Truthy(strip_model_prefix(voice_config.tts_model, "elevenlabs"))
                  THEN strip_model_prefix(voice_config.tts_model, "elevenlabs")
                  ELSE "eleven_turbo_v2_5")]
       ELSE IF provider = "cartesia"
       THEN [module |-> "livekit.plugins.cartesia.tts",
             model |-> IF Truthy(strip_model_prefix(voice_config.tts_model, "cartesia"))
                       THEN strip_model_prefix(voice_config.tts_model, "cartesia")
                       ELSE "sonic-2"]
       ELSE IF provider = "deepgram"
       THEN [module |-> "livekit.plugins.deepgram.tts", model |-> "aura"]
       ELSE IF provider = "google"
       THEN [module |-> "livekit.plugins.google.tts", model |-> ""]
       ELSE [module |-> "livekit.plugins.openai.tts",
             model |-> IF strip_model_prefix(voice_config.tts_model, "openai")
                              \in {"tts-1", "tts-1-hd", "gpt-4o-mini-tts"}
                       THEN strip_model_prefix(voice_config.tts_model, "openai")
                       ELSE "tts-1"]

(***************************************************************************)
(* main.py create_agent_from_config and KwamiAgent.__init__: the agent     *)
(* keeps the config object it is given, the memory and the greeting flag.  *)
(* persona_ref is the place of the config's persona object in the heap.    *)
(***************************************************************************)
KwamiAgent(config, persona_ref, persona, memory, skip_greeting) ==
    [kwami_config |-> [config EXCEPT !.persona = persona_ref],
     _memory |-> memory,
     _skip_greeting |-> skip_greeting,
     tts |-> create_tts(config.voice),
     instructions |-> _build_system_prompt(persona)]

(***************************************************************************)
(* The state after entrypoint() has started the session: the placeholder   *)
(* agent (default config, no memory, greeting skipped) is current,         *)
(* user_identity is the identity of a remote participant if one is in the  *)
(* room, and room_name is not passed to create_session_state.              *)
(***************************************************************************)
\* what last_op records: the handler, how it ended, the path it took, for a
\* persona delta the keys of its payload, and the payload
Op(op, outcome, path, keys, config) ==
    [op |-> op, outcome |-> outcome, path |-> path, keys |-> keys,
     config |-> config]

\* the outcomes of a call: a call that is not made has no outcome to draw
\* (the switch is not called when the factory raised)
Drawn(called) == IF called THEN BOOLEAN ELSE {TRUE}

\* how a handler that called the factory and the switch ended
Outcome(factory_ok, session_ok) ==
    IF ~factory_ok THEN "factory_error"
    ELSE IF ~session_ok THEN "switch_error" ELSE "ok"

Identities == {None, "user-1"}

\* no provider.py function is being called
NoProbe == [stage |-> "none"]

InitSession ==
    /\ zep_api_key \in BOOLEAN
    /\ internal_api_key \in BOOLEAN
    /\ report_log = <<>>
    /\ personas = <<KwamiPersonaConfig>>
    /\ agents = <<KwamiAgent(KwamiConfig, 1, KwamiPersonaConfig, NoMemory, TRUE)>>
    /\ memories = <<>>
    /\ tasks = <<>>
    /\ current_agent = 1
    /\ session_agent = 1
    /\ user_identity \in Identities
    /\ room_name \in {None, "room-1"}
    /\ greeting_delivered = FALSE
    /\ _cleanup_tasks = <<>>
    /\ usage = EmptyDict
    /\ pending_full = <<>>
    /\ cleanup_pc = "idle"
    /\ cleanup_awaited = <<>>
    /\ delta_log = <<>>
    /\ factory_log = <<>>
    /\ swap_log = <<>>
    /\ live_updates = <<>>
    /\ instruction_updates = 0
    /\ last_op = Op("start", "ok", "", {}, EmptyDict)

\* entrypoint passes no room_name to create_session_state (main.py lines
\* 70-74): cleanup() then never calls the reporter, whose API key is left
\* out of account
Init ==
    /\ InitSession
    /\ probe = NoProbe /\ room_name = None /\ ~internal_api_key
    /\ callers = <<>>

(***************************************************************************)
(* session.py SessionState.update_agent                                    *)
(***************************************************************************)
\* a variant that releases the outgoing memory whatever the incoming agent
\* carries
needs_cleanup_eager(old_agent, new_agent) ==
    /\ old_agent # NoAgent
    /\ agents[old_agent]._memory # NoMemory

\* lines 56-59: the outgoing memory is released iff there is one and the
\* incoming agent does not carry the very same object
needs_cleanup(old_agent, new_agent) ==
    /\ old_agent # NoAgent
    /\ agents[old_agent]._memory # NoMemory
    /\ new_agent._memory # agents[old_agent]._memory

\* heap is the agent heap as the calling handler has left it; session_ok is
\* whether AgentSession.update_agent returns (it raises otherwise, after the
\* cleanup task has been created and before current_agent is assigned)
update_agent(heap, new_agent, session_ok) ==
    LET old_agent == current_agent
        schedule == needs_cleanup(old_agent, new_agent)
        ref == Len(heap) + 1
    IN /\ agents' = Append(heap, new_agent)
       /\ IF schedule
          THEN /\ tasks' = Append(tasks, [memory |-> agents[old_agent]._memory,
                                          status |-> "pending",
                                          raised |-> FALSE])
               /\ _cleanup_tasks' = Append(_cleanup_tasks, Len(tasks) + 1)
          ELSE UNCHANGED <<tasks, _cleanup_tasks>>
       /\ swap_log' = Append(swap_log,
              [old_memory |-> IF old_agent = NoAgent THEN NoMemory
                              ELSE agents[old_agent]._memory,
               new_memory |-> new_agent._memory,
               committed |-> session_ok])
       /\ IF session_ok
          THEN current_agent' = ref /\ session_agent' = ref
          ELSE UNCHANGED <<current_agent, session_agent>>

(***************************************************************************)
(* A handler's call of create_agent_fn followed by state.update_agent.     *)
(* factory_ok is whether create_agent_from_config returns an agent (a      *)
(* plugin constructor raises otherwise).  fresh_persona tells whether the  *)
(* config brings a persona object of its own (a full config) or shares     *)
(* the one of the outgoing config (dataclasses.replace).                   *)
(***************************************************************************)
create_and_switch(source, delta, heap, config, fresh_persona, memory, skip_greeting, factory_ok, session_ok) ==
    LET persona_ref == IF fresh_persona THEN Len(personas) + 1 ELSE config.persona
        persona == IF fresh_persona THEN config.persona ELSE personas[config.persona]
        new_agent == KwamiAgent(config, persona_ref, persona, memory, skip_greeting)
    IN /\ factory_log' = Append(factory_log,
              [source |-> source, delta |-> delta,
               skip_greeting |-> skip_greeting, memory |-> memory,
               returned |-> factory_ok, committed |-> factory_ok /\ session_ok])
       /\ IF factory_ok
          THEN /\ personas' = IF fresh_persona THEN Append(personas, persona)
                              ELSE personas
               /\ update_agent(heap, new_agent, session_ok)
          ELSE /\ agents' = heap
               /\ UNCHANGED <<personas, tasks, _cleanup_tasks, swap_log,
                              current_agent, session_agent>>

\* what a handler step that touches neither the session nor the heaps leaves alone
NoSwitch == UNCHANGED <<personas, tasks, _cleanup_tasks, swap_log, current_agent,
                        session_agent, factory_log>>

Accepting == cleanup_pc # "done" /\ Len(delta_log) < MaxDeltas

(***************************************************************************)
(* config_handler.py update_llm (through handle_config_update, which       *)
(* catches and logs whatever the handler raises).                          *)
(***************************************************************************)
\* lines 401-412: the config handed to the factory
update_llm_config(agent, config) ==
    LET old_voice == agent.kwami_config.voice
        provider == IF GetTruthy(config, "provider") THEN config.provider
                    ELSE old_voice.llm_provider
        model == IF GetTruthy(config, "model")
                 THEN strip_model_prefix(config.model, provider)
                 ELSE old_voice.llm_model
        temperature == IF GetNumber(config, "temperature") THEN config.temperature
                       ELSE old_voice.llm_temperature
    IN [agent.kwami_config EXCEPT !.voice = [old_voice EXCEPT
            !.llm_provider = provider, !.llm_model = model,
            !.llm_temperature = temperature]]

\* a variant that hands no memory to the factory
update_llm_memory_dropped(agent) == NoMemory

\* line 413: the memory handed to the factory
update_llm_memory(agent) == agent._memory

LlmPayloads ==
    {[model |-> "openai/gpt-4o"],
     [provider |-> "groq", model |-> "llama-3.1-8b-instant", temperature |-> 5]}

update_llm ==
    /\ Accepting
    /\ \E config \in LlmPayloads, factory_ok \in BOOLEAN : \E session_ok \in Drawn(factory_ok) :
          LET agent == agents[current_agent]
          IN /\ create_and_switch("llm", Len(delta_log) + 1, agents,
                                  update_llm_config(agent, config), FALSE,
                                  update_llm_memory(agent), TRUE,
                                  factory_ok, session_ok)
             /\ last_op' = Op("llm", Outcome(factory_ok, session_ok), "replace",
                              {}, config)
    /\ delta_log' = Append(delta_log, "llm")
    /\ UNCHANGED <<memories, user_identity, room_name, greeting_delivered, usage,
                   pending_full, cleanup_pc, cleanup_awaited, zep_api_key, internal_api_key, report_log, callers, probe,
                   live_updates, instruction_updates>>

(***************************************************************************)
(* config_handler.py handle_full_config.  The whole body is inside one     *)
(* try/except that logs.  A sub-object that is not a JSON object makes     *)
(* its .get() raise.                                                       *)
(***************************************************************************)
\* lines 43-78: message["voice"] applied to the defaults
parse_voice(message) ==
    LET voice_data == GetDict(message, "voice")
        tts_data == GetDict(voice_data, "tts")
        llm_data == GetDict(voice_data, "llm")
        stt_data == GetDict(voice_data, "stt")
        d == KwamiVoiceConfig
        tts_provider == IF GetTruthy(tts_data, "provider") THEN tts_data.provider
                        ELSE d.tts_provider
        llm_provider == IF GetTruthy(llm_data, "provider") THEN llm_data.provider
                        ELSE d.llm_provider
        stt_provider == IF GetTruthy(stt_data, "provider") THEN stt_data.provider
                        ELSE d.stt_provider
    IN [stt_provider |-> stt_provider,
        stt_model |-> IF GetTruthy(stt_data, "model")
                      THEN strip_model_prefix(stt_data.model, stt_provider)
                      ELSE d.stt_model,
        stt_language |-> IF GetTruthy(stt_data, "language") THEN stt_data.language
                         ELSE d.stt_language,
        llm_provider |-> llm_provider,
        llm_model |-> IF GetTruthy(llm_data, "model")
                      THEN strip_model_prefix(llm_data.model, llm_provider)
                      ELSE d.llm_model,
        llm_temperature |-> IF GetNumber(llm_data, "temperature")
                            THEN llm_data.temperature ELSE d.llm_temperature,
        llm_max_tokens |-> IF GetNumber(llm_data, "maxTokens")
                           THEN llm_data.maxTokens ELSE d.llm_max_tokens,
        tts_provider |-> tts_provider,
        tts_model |-> IF GetTruthy(tts_data, "model")
                      THEN strip_model_prefix(tts_data.model, tts_provider)
                      ELSE d.tts_model,
        tts_voice |-> IF GetTruthy(tts_data, "voice") THEN tts_data.voice
                      ELSE d.tts_voice,
        tts_speed |-> IF GetNumber(tts_data, "speed") THEN tts_data.speed
                      ELSE d.tts_speed]

\* lines 43-78 raise iff one of the objects read there is not an object
voice_raises(message) ==
    LET voice_data == GetDict(message, "voice")
    IN \/ ~IsDict(voice_data)
       \/ IsDict(voice_data) /\ \E k \in {"tts", "llm", "stt"} :
             ~IsDict(GetDict(voice_data, k))

\* line 82
full_kwami_id(message) ==
    IF GetTruthy(message, "kwamiId") THEN message.kwamiId ELSE user_identity

\* a variant without the "if not state.user_identity" guard of line 87
full_user_identity_overwrite(message) ==
    IF Truthy(full_kwami_id(message)) THEN full_kwami_id(message)
    ELSE user_identity

\* lines 87-88
full_user_identity(message) ==
    IF Truthy(full_kwami_id(message)) /\ ~Truthy(user_identity)
    THEN full_kwami_id(message)
    ELSE user_identity

\* a variant that reads no systemPrompt from the message
parse_persona_no_prompt(message) ==
    LET persona_data == GetDict(message, "persona")
        d == KwamiPersonaConfig
    IN [d EXCEPT
           !.name = IF GetTruthy(persona_data, "name") THEN persona_data.name ELSE @,
           !.personality = IF GetTruthy(persona_data, "personality")
                           THEN persona_data.personality ELSE @,
           !.traits = IF Has(persona_data, "traits") /\ Len(persona_data.traits) > 0
                      THEN persona_data.traits ELSE @]

\* lines 94-102
parse_persona(message) ==
    LET persona_data == GetDict(message, "persona")
        d == KwamiPersonaConfig
    IN [d EXCEPT
           !.name = IF GetTruthy(persona_data, "name") THEN persona_data.name ELSE @,
           !.personality = IF GetTruthy(persona_data, "personality")
                           THEN persona_data.personality ELSE @,
           !.system_prompt = IF GetTruthy(persona_data, "systemPrompt")
                             THEN persona_data.systemPrompt ELSE @,
           !.traits = IF Has(persona_data, "traits") /\ Len(persona_data.traits) > 0
                      THEN persona_data.traits ELSE @]

\* lines 94 and 106-109 raise iff persona or memory is not an object
tail_raises(message) ==
    ~IsDict(GetDict(message, "persona")) \/ ~IsDict(GetDict(message, "memory"))

\* lines 105-114: whether memory is to be opened, and the memory config
memory_enabled(message) ==
    LET mem_data == GetDict(message, "memory")
        default == KwamiConfig.memory.enabled
    IN IF default \/ (Has(mem_data, "enabled") /\ mem_data.enabled)
       THEN IF Has(mem_data, "enabled") THEN mem_data.enabled ELSE default
       ELSE default

\* lines 39-114: the KwamiConfig built from the message
parse_full_config(message) ==
    LET kwami_id == full_kwami_id(message)
    IN [kwami_id |-> IF Truthy(kwami_id) THEN kwami_id ELSE KwamiConfig.kwami_id,
        kwami_name |-> IF GetTruthy(message, "kwamiName") THEN message.kwamiName
                       ELSE KwamiConfig.kwami_name,
        persona |-> parse_persona(message),
        voice |-> parse_voice(message),
        memory |-> [enabled |-> memory_enabled(message),
                    user_id |-> IF memory_enabled(message) /\ Truthy(kwami_id)
                                THEN "kwami_" \o kwami_id ELSE ""]]

\* memory.py create_memory suspends in KwamiMemory.initialize iff the memory
\* is enabled and has an API key; it returns None at once otherwise
create_memory_suspends(config) == config.memory.enabled /\ zep_api_key

\* a variant that suppresses the greeting as soon as an earlier full config
\* has reached the factory, whether or not its swap was made
full_skip_greeting_after_first ==
    \E k \in DOMAIN factory_log : factory_log[k].source = "full"

\* a variant that never suppresses the greeting of a full config
full_skip_greeting_never == FALSE

\* line 127
full_skip_greeting == greeting_delivered

\* lines 122-135, from the memory on: factory, switch, greeting flag
full_config_finish(delta, message, config, memory, factory_ok, session_ok) ==
    LET skip_greeting == full_skip_greeting
    IN /\ create_and_switch("full", delta, agents, config, TRUE, memory,
                            skip_greeting, factory_ok, session_ok)
       /\ greeting_delivered' =
             IF factory_ok /\ session_ok /\ ~skip_greeting THEN TRUE
             ELSE greeting_delivered
       /\ last_op' = Op("full", Outcome(factory_ok, session_ok), "replace",
                        {}, message)

FullMessages ==
    {[type |-> "config", kwamiId |-> "kwami-1",
      voice |-> [tts |-> [provider |-> "elevenlabs",
                          model |-> "elevenlabs/eleven_turbo_v2_5"]],
      persona |-> [systemPrompt |-> "You are Nova."],
      memory |-> [enabled |-> TRUE]],
     [type |-> "config",
      voice |-> [llm |-> [model |-> "openai/gpt-4o"]],
      persona |-> [name |-> "Nova"]],
     [type |-> "config", kwamiId |-> "kwami-2", voice |-> NotADict],
     [type |-> "config", kwamiId |-> "kwami-2", persona |-> NotADict]}

\* handle_data dispatches a "config" message; the handler runs up to the
\* memory open, and to its end when the open does not suspend
handle_full_config_from(messages) ==
    /\ Accepting
    /\ delta_log' = Append(delta_log, "full")
    /\ \E message \in messages, factory_ok \in BOOLEAN : \E session_ok \in Drawn(factory_ok) :
          IF voice_raises(message)
          THEN /\ last_op' = Op("full", "parse_error", "", {}, message)
               /\ UNCHANGED <<agents, user_identity, greeting_delivered,
                              pending_full>>
               /\ NoSwitch
          ELSE /\ user_identity' = full_user_identity(message)
               /\ IF tail_raises(message)
                  THEN /\ last_op' = Op("full", "parse_error", "", {}, message)
                       /\ UNCHANGED <<agents, greeting_delivered, pending_full>>
                       /\ NoSwitch
                  ELSE LET config == parse_full_config(message)
                       IN IF create_memory_suspends(config)
                          THEN /\ pending_full' = Append(pending_full,
                                      [delta |-> Len(delta_log) + 1,
                                       message |-> message, config |-> config])
                               /\ last_op' = Op("full", "suspended", "",
                                                {}, message)
                               /\ UNCHANGED <<agents, greeting_delivered>>
                               /\ NoSwitch
                          ELSE /\ full_config_finish(Len(delta_log) + 1, message,
                                                     config, NoMemory,
                                                     factory_ok, session_ok)
                               /\ UNCHANGED pending_full
    /\ UNCHANGED <<memories, room_name, usage, cleanup_pc, cleanup_awaited,
                   zep_api_key, internal_api_key, report_log, callers, probe, live_updates, instruction_updates>>

handle_full_config == handle_full_config_from(FullMessages)

\* create_memory returns into a suspended handler: a new KwamiMemory when
\* initialize() succeeded, None otherwise
RemoveAt(seq, i) == SubSeq(seq, 1, i - 1) \o SubSeq(seq, i + 1, Len(seq))

handle_full_config_resume ==
    /\ cleanup_pc # "done"
    /\ \E i \in DOMAIN pending_full, opened \in BOOLEAN,
          factory_ok \in BOOLEAN : \E session_ok \in Drawn(factory_ok) :
          LET handler == pending_full[i]
              memory == IF opened THEN Len(memories) + 1 ELSE NoMemory
          IN /\ memories' = IF opened
                            THEN Append(memories,
                                        [kwami_id |->
                                            IF Truthy(handler.config.kwami_id)
                                            THEN handler.config.kwami_id
                                            ELSE "default",
                                         close_calls |-> 0])
                            ELSE memories
             /\ full_config_finish(handler.delta, handler.message,
                                   handler.config, memory, factory_ok, session_ok)
             /\ pending_full' = RemoveAt(pending_full, i)
    /\ UNCHANGED <<user_identity, room_name, usage, cleanup_pc, cleanup_awaited,
                   zep_api_key, internal_api_key, report_log, callers, probe, delta_log, live_updates, instruction_updates>>

(***************************************************************************)
(* config_handler.py update_voice, _update_tts_options and                 *)
(* _update_stt_if_needed (through handle_config_update).                   *)
(***************************************************************************)
contains(s, sub) ==
    \E i \in 1..(Len(s) - Len(sub) + 1) : SubSeq(s, i, i + Len(sub) - 1) = sub

\* variant: the explicit provider is not looked at
resolve_tts_provider_detected(current_provider, config) ==
    detect_provider_change(current_provider, Get(config, "tts_model"),
                           Get(config, "tts_voice"))

\* lines 200-216: <<new_provider, provider_changed>>
resolve_tts_provider(current_provider, config) ==
    LET detected == detect_provider_change(current_provider,
                                           Get(config, "tts_model"),
                                           Get(config, "tts_voice"))
    IN IF GetTruthy(config, "tts_provider") /\ config.tts_provider # detected[1]
       THEN <<config.tts_provider, config.tts_provider # current_provider>>
       ELSE detected

\* lines 223-227
speed_changed(voice, config) ==
    LET current_speed == IF voice.tts_speed # 0 THEN voice.tts_speed ELSE 10
    IN /\ Has(config, "tts_speed")
       /\ config.tts_speed # current_speed
       /\ voice.tts_provider = "elevenlabs"

\* line 229
replaces_tts(voice, config) ==
    resolve_tts_provider(voice.tts_provider, config)[2] \/ speed_changed(voice, config)

\* a variant that keeps the stored model and voice when the delta brings none
replaced_voice_config_keeping(voice, config) ==
    LET new_provider == resolve_tts_provider(voice.tts_provider, config)[1]
    IN [voice EXCEPT
           !.tts_provider = new_provider,
           !.tts_model = IF GetTruthy(config, "tts_model")
                         THEN strip_model_prefix(config.tts_model, new_provider)
                         ELSE @,
           !.tts_voice = IF GetTruthy(config, "tts_voice") THEN config.tts_voice
                         ELSE @,
           !.tts_speed = IF GetNumber(config, "tts_speed") THEN config.tts_speed
                         ELSE @]

\* lines 234-252: the voice config of the replacing agent
replaced_voice_config(voice, config) ==
    LET resolved == resolve_tts_provider(voice.tts_provider, config)
        new_provider == resolved[1]
        provider_changed == resolved[2]
    IN [voice EXCEPT
           !.tts_provider = new_provider,
           !.tts_model = IF GetTruthy(config, "tts_model")
                         THEN strip_model_prefix(config.tts_model, new_provider)
                         ELSE IF provider_changed THEN "" ELSE @,
           !.tts_voice = IF GetTruthy(config, "tts_voice") THEN config.tts_voice
                         ELSE IF provider_changed THEN "" ELSE @,
           !.tts_speed = IF GetNumber(config, "tts_speed") THEN config.tts_speed
                         ELSE @]

\* _update_tts_options lines 286-306: the voice that survives validation
validated_voice(agent, config) ==
    LET new_voice == Get(config, "tts_voice")
        is_inference_tts == contains(agent.tts.module, "inference")
        is_openai_tts == contains(agent.tts.module, "openai") /\ ~is_inference_tts
    IN IF Truthy(new_voice) /\ is_openai_tts /\ new_voice \notin OPENAI_VOICES
       THEN None
       ELSE new_voice

\* a variant that sends the speed to every TTS object
tts_updates_with_speed(agent, config) ==
    LET new_voice == validated_voice(agent, config)
        is_elevenlabs == agent.kwami_config.voice.tts_provider = "elevenlabs"
        is_inference_tts == contains(agent.tts.module, "inference")
        is_elevenlabs_tts == \/ is_elevenlabs
                             \/ contains(agent.tts.module, "elevenlabs")
                             \/ contains(lower(agent.tts.model), "elevenlabs")
        voice_key == IF is_elevenlabs_tts /\ ~is_inference_tts THEN "voice_id"
                     ELSE "voice"
        keys == (IF Truthy(new_voice) THEN {voice_key} ELSE {})
                \cup (IF GetNumber(config, "tts_speed") THEN {"speed"} ELSE {})
    IN [k \in keys |-> IF k = "speed" THEN config.tts_speed ELSE new_voice]

\* _update_tts_options lines 278-319: the keyword arguments of update_options
tts_updates(agent, config) ==
    LET new_voice == validated_voice(agent, config)
        is_elevenlabs == agent.kwami_config.voice.tts_provider = "elevenlabs"
        is_inference_tts == contains(agent.tts.module, "inference")
        is_elevenlabs_tts == \/ is_elevenlabs
                             \/ contains(agent.tts.module, "elevenlabs")
                             \/ contains(lower(agent.tts.model), "elevenlabs")
        voice_key == IF is_elevenlabs_tts /\ ~is_inference_tts THEN "voice_id"
                     ELSE "voice"
        keys == (IF Truthy(new_voice) THEN {voice_key} ELSE {})
                \cup (IF GetNumber(config, "tts_speed") /\ ~is_inference_tts
                      THEN {"speed"} ELSE {})
    IN [k \in keys |-> IF k = "speed" THEN config.tts_speed ELSE new_voice]

\* _update_tts_options lines 321-331: the stored voice config afterwards
patched_voice_config(agent, config, tts_ok) ==
    LET voice == agent.kwami_config.voice
        new_voice == validated_voice(agent, config)
    IN IF DOMAIN tts_updates(agent, config) # {} /\ tts_ok
       THEN [voice EXCEPT
                !.tts_voice = IF Truthy(new_voice) THEN new_voice ELSE @,
                !.tts_speed = IF GetNumber(config, "tts_speed")
                              THEN config.tts_speed ELSE @]
       ELSE voice

\* _update_stt_if_needed lines 343-352
replaces_stt(voice, config) ==
    \/ GetTruthy(config, "stt_provider") /\ config.stt_provider # voice.stt_provider
    \/ GetTruthy(config, "stt_model") /\ config.stt_model # voice.stt_model

\* _update_stt_if_needed lines 358-365
replaced_stt_config(voice, config) ==
    LET stt_provider == IF GetTruthy(config, "stt_provider") THEN config.stt_provider
                        ELSE voice.stt_provider
    IN [voice EXCEPT
           !.stt_provider = stt_provider,
           !.stt_model = IF GetTruthy(config, "stt_model")
                         THEN strip_model_prefix(config.stt_model, stt_provider)
                         ELSE @,
           !.stt_language = IF GetTruthy(config, "stt_language")
                            THEN config.stt_language ELSE @]

\* _update_stt_if_needed lines 375-377
stt_updates(config) ==
    [k \in (IF GetTruthy(config, "stt_language") THEN {"language"} ELSE {})
        |-> config.stt_language]

\* lines 257 and 370: the memory handed to the factory
update_voice_memory(agent) == agent._memory

VoicePayloads ==
    {[tts_voice |-> "alloy"],
     [tts_model |-> "elevenlabs/eleven_turbo_v2_5"],
     [tts_voice |-> "shimmer", stt_model |-> "deepgram/nova-2"],
     [tts_speed |-> 12, stt_language |-> "es"]}

\* the calls update_voice makes for a delta: the factory (lines 257, 371),
\* tts.update_options (line 323) and stt.update_options (line 377)
voice_calls(config) ==
    LET agent == agents[current_agent]
        voice == agent.kwami_config.voice
        patches == ~replaces_tts(voice, config)
    IN [factory |-> ~patches \/ replaces_stt(voice, config),
        tts |-> patches /\ DOMAIN tts_updates(agent, config) # {},
        stt |-> patches /\ ~replaces_stt(voice, config)
                /\ DOMAIN stt_updates(config) # {}]

update_voice_from(payloads) ==
    /\ Accepting
    /\ delta_log' = Append(delta_log, "voice")
    /\ \E config \in payloads : \E factory_ok \in Drawn(voice_calls(config).factory),
          tts_ok \in Drawn(voice_calls(config).tts),
          stt_ok \in Drawn(voice_calls(config).stt) :
          \E session_ok \in Drawn(voice_calls(config).factory /\ factory_ok) :
          LET agent == agents[current_agent]
              voice == agent.kwami_config.voice
          IN IF replaces_tts(voice, config)
             THEN \* lines 229-259
                  /\ create_and_switch("voice", Len(delta_log) + 1, agents,
                        [agent.kwami_config EXCEPT
                            !.voice = replaced_voice_config(voice, config)],
                        FALSE, update_voice_memory(agent), TRUE, factory_ok, session_ok)
                  /\ last_op' = Op("voice", Outcome(factory_ok, session_ok),
                                   "replace", {}, config)
                  /\ UNCHANGED live_updates
             ELSE \* lines 260-265
                  LET updates == tts_updates(agent, config)
                      patched == patched_voice_config(agent, config, tts_ok)
                      heap == [agents EXCEPT ![current_agent].kwami_config.voice = patched]
                      tts_calls == IF DOMAIN updates # {}
                                   THEN <<[target |-> "tts", agent |-> current_agent,
                                           updates |-> updates, returned |-> tts_ok]>>
                                   ELSE <<>>
                  IN IF replaces_stt(patched, config)
                     THEN /\ create_and_switch("stt", Len(delta_log) + 1, heap,
                                [agent.kwami_config EXCEPT
                                    !.voice = replaced_stt_config(patched, config)],
                                FALSE, update_voice_memory(agent), TRUE,
                                factory_ok, session_ok)
                          /\ live_updates' = live_updates \o tts_calls
                          /\ last_op' = Op("voice", Outcome(factory_ok, session_ok),
                                           "replace_stt", {}, config)
                     ELSE /\ agents' = heap
                          /\ NoSwitch
                          /\ live_updates' = live_updates \o tts_calls \o
                                (IF DOMAIN stt_updates(config) # {}
                                 THEN <<[target |-> "stt", agent |-> current_agent,
                                         updates |-> stt_updates(config),
                                         returned |-> stt_ok]>>
                                 ELSE <<>>)
                          /\ last_op' = Op("voice",
                                IF DOMAIN stt_updates(config) # {} /\ ~stt_ok
                                THEN "options_error" ELSE "ok", "patch",
                                {}, config)
    /\ UNCHANGED <<memories, user_identity, room_name, greeting_delivered, usage,
                   pending_full, cleanup_pc, cleanup_awaited, zep_api_key, internal_api_key, report_log, callers, probe,
                   instruction_updates>>

update_voice == update_voice_from(VoicePayloads)

(***************************************************************************)
(* config_handler.py update_persona (through handle_config_update).        *)
(***************************************************************************)
\* Python's  config.get(a) or config.get(b)
GetEither(d, a, b) == IF GetTruthy(d, a) THEN d[a] ELSE Get(d, b)

\* lines 432-452: whether any recognised key is present
persona_updated(config) ==
    DOMAIN config \cap {"name", "personality", "systemPrompt", "system_prompt",
                        "traits", "conversationStyle", "conversation_style",
                        "responseLength", "response_length", "emotionalTone",
                        "emotional_tone"} # {}

\* a variant without the "if key in config" guards
updated_persona_unguarded(persona, config) ==
    [persona EXCEPT
        !.name = Get(config, "name"),
        !.personality = Get(config, "personality"),
        !.system_prompt = GetEither(config, "systemPrompt", "system_prompt"),
        !.traits = IF Has(config, "traits") THEN config.traits ELSE <<>>,
        !.conversation_style =
            GetEither(config, "conversationStyle", "conversation_style"),
        !.response_length = GetEither(config, "responseLength", "response_length"),
        !.emotional_tone = GetEither(config, "emotionalTone", "emotional_tone")]

\* lines 432-452: the persona object afterwards
updated_persona(persona, config) ==
    [persona EXCEPT
        !.name = IF Has(config, "name") THEN config.name ELSE @,
        !.personality = IF Has(config, "personality") THEN config.personality ELSE @,
        !.system_prompt = IF Has(config, "systemPrompt") \/ Has(config, "system_prompt")
                          THEN GetEither(config, "systemPrompt", "system_prompt")
                          ELSE @,
        !.traits = IF Has(config, "traits") THEN config.traits ELSE @,
        !.conversation_style =
            IF Has(config, "conversationStyle") \/ Has(config, "conversation_style")
            THEN GetEither(config, "conversationStyle", "conversation_style") ELSE @,
        !.response_length =
            IF Has(config, "responseLength") \/ Has(config, "response_length")
            THEN GetEither(config, "responseLength", "response_length") ELSE @,
        !.emotional_tone =
            IF Has(config, "emotionalTone") \/ Has(config, "emotional_tone")
            THEN GetEither(config, "emotionalTone", "emotional_tone") ELSE @]

PersonaPayloads ==
    {[name |-> "Nova", traits |-> <<"curious">>],
     [system_prompt |-> "You are a pirate.", emotionalTone |-> "calm"],
     [language |-> "es"]}

\* agent.update_instructions returns (instructions_ok) or raises after the
\* persona object has been changed
update_persona ==
    /\ Accepting
    /\ delta_log' = Append(delta_log, "persona")
    /\ \E config \in PersonaPayloads, instructions_ok \in BOOLEAN :
          LET agent == agents[current_agent]
              ref == agent.kwami_config.persona
              persona == updated_persona(personas[ref], config)
          IN IF persona_updated(config)
             THEN /\ personas' = [personas EXCEPT ![ref] = persona]
                  /\ instruction_updates' = instruction_updates + 1
                  /\ agents' = IF instructions_ok
                               THEN [agents EXCEPT ![current_agent].instructions =
                                        _build_system_prompt(persona)]
                               ELSE agents
                  /\ last_op' = Op("persona", IF instructions_ok THEN "ok"
                                              ELSE "instructions_error",
                                   "patch", DOMAIN config, config)
             ELSE /\ UNCHANGED <<personas, instruction_updates, agents>>
                  /\ last_op' = Op("persona", "ok", "", DOMAIN config, config)
    /\ UNCHANGED <<memories, tasks, current_agent, user_identity, room_name,
                   greeting_delivered, _cleanup_tasks, usage, session_agent,
                   pending_full, cleanup_pc, cleanup_awaited, zep_api_key, internal_api_key, report_log, callers, probe,
                   factory_log, swap_log, live_updates>>

(***************************************************************************)
(* session.py SessionState._cleanup_memory, run as a background task:      *)
(* it calls memory.close() and suspends in it, then ends: close() returns  *)
(* or raises, and lines 81-82 log what it raises.                          *)
(***************************************************************************)
close(heap, memory) ==
    [heap EXCEPT ![memory].close_calls = @ + 1]

cleanup_task_start ==
    /\ cleanup_pc # "done"
    /\ \E t \in DOMAIN tasks :
          /\ tasks[t].status = "pending"
          /\ memories' = close(memories, tasks[t].memory)
          /\ tasks' = [tasks EXCEPT ![t].status = "closing"]
    /\ UNCHANGED <<agents, personas, current_agent, user_identity, room_name,
                   greeting_delivered, _cleanup_tasks, usage, session_agent,
                   pending_full, cleanup_pc, cleanup_awaited, zep_api_key, internal_api_key,
          report_log, callers, probe, delta_log,
                   factory_log, swap_log, live_updates, instruction_updates,
                   last_op>>

cleanup_task_done ==
    /\ cleanup_pc # "done"
    /\ \E t \in DOMAIN tasks :
          /\ tasks[t].status = "closing"
          /\ \E raised \in BOOLEAN :
                tasks' = [tasks EXCEPT ![t].status = "done", ![t].raised = raised]
    /\ UNCHANGED <<agents, personas, memories, current_agent, user_identity,
                   room_name, greeting_delivered, _cleanup_tasks, usage,
                   session_agent, pending_full, cleanup_pc, cleanup_awaited,
                   zep_api_key, internal_api_key, report_log, callers, probe, delta_log, factory_log, swap_log, live_updates,
                   instruction_updates, last_op>>

(***************************************************************************)
(* session.py SessionState.cleanup, the shutdown callback.  It suspends in *)
(* the usage report, in asyncio.gather (when there are tasks) and in the   *)
(* close of the current agent's memory.                                    *)
(***************************************************************************)
has_usage == \E k \in DOMAIN usage : usage[k].total_units > 0

\* lines 91-94
resolved_identity ==
    IF ~Truthy(user_identity) /\ current_agent # NoAgent
          /\ Truthy(agents[current_agent].kwami_config.kwami_id)
    THEN agents[current_agent].kwami_config.kwami_id
    ELSE user_identity

\* a variant that does not look at the room name
should_report_any_room(identity) == Truthy(identity) /\ has_usage

\* line 98
should_report(identity) == Truthy(identity) /\ Truthy(room_name) /\ has_usage

\* lines 122-124, entered with the cleanup tasks as given
cleanup_close_current(task_list) ==
    /\ _cleanup_tasks' = task_list
    /\ cleanup_awaited' = <<>>
    /\ IF current_agent # NoAgent /\ agents[current_agent]._memory # NoMemory
       THEN /\ memories' = close(memories, agents[current_agent]._memory)
            /\ cleanup_pc' = "close"
       ELSE /\ cleanup_pc' = "done"
            /\ UNCHANGED memories

\* lines 117-124, up to the next await
cleanup_drain ==
    IF Len(_cleanup_tasks) > 0
    THEN /\ cleanup_awaited' = _cleanup_tasks
         /\ cleanup_pc' = "gather"
         /\ UNCHANGED <<_cleanup_tasks, memories>>
    ELSE cleanup_close_current(_cleanup_tasks)

cleanup_frame ==
    UNCHANGED <<agents, personas, tasks, current_agent, room_name,
                greeting_delivered, usage, session_agent, pending_full,
                zep_api_key, internal_api_key, callers, probe, delta_log,
                factory_log, swap_log, live_updates, instruction_updates,
                last_op>>

\* the answers of the credits endpoint to the POST of reporter.py line 90:
\* none (the connection fails), a status other than 200, and status 200
\* with a body that is no JSON, a JSON list, or the JSON object expected
Responses ==
    {[arrived |-> FALSE, status |-> 0, body |-> ""],
     [arrived |-> TRUE, status |-> 500, body |-> "text"],
     [arrived |-> TRUE, status |-> 200, body |-> "text"],
     [arrived |-> TRUE, status |-> 200, body |-> "list"],
     [arrived |-> TRUE, status |-> 200, body |-> "object"]}

\* a variant that takes every answer with status 200 for a success
report_result_by_status(used, key, response) ==
    [posts |-> IF used /\ key THEN 1 ELSE 0, response |-> response,
     result |-> ~used \/ (key /\ response.arrived /\ response.status = 200)]

\* reporter.py lines 41-108, UsageReporter.report: the POSTs made and the
\* value returned, given has_usage, whether an API key is set and the answer.
\* resp.json() raises on a body that is no JSON and result.get on a list;
\* line 106 catches both
report_result(used, key, response) ==
    [posts |-> IF used /\ key THEN 1 ELSE 0, response |-> response,
     result |-> IF ~used THEN TRUE
                ELSE IF ~key THEN FALSE
                ELSE /\ response.arrived
                     /\ response.status = 200
                     /\ response.body = "object"]

\* lines 91-110: without an API key report() returns at line 80 without
\* having suspended, and cleanup() goes on to the drain
cleanup ==
    /\ cleanup_pc = "idle"
    /\ user_identity' = resolved_identity
    /\ IF should_report(resolved_identity) /\ internal_api_key
       THEN /\ cleanup_pc' = "report"
            /\ UNCHANGED <<_cleanup_tasks, cleanup_awaited, memories, report_log>>
       ELSE /\ cleanup_drain
            /\ report_log' =
                  IF should_report(resolved_identity)
                  THEN Append(report_log,
                              report_result(TRUE, FALSE,
                                 [arrived |-> FALSE, status |-> 0, body |-> ""]))
                  ELSE report_log
    /\ cleanup_frame

\* line 104 returns: the POST of report() has been answered (or has failed)
cleanup_reported ==
    /\ cleanup_pc = "report"
    /\ \E response \in Responses :
          report_log' = Append(report_log, report_result(TRUE, TRUE, response))
    /\ cleanup_drain
    /\ UNCHANGED user_identity
    /\ cleanup_frame

\* a variant in which gather() hands on what a task has raised: cleanup()
\* then ends at line 119 without returning
cleanup_gathered_unsuppressed ==
    /\ cleanup_pc = "gather"
    /\ \A i \in DOMAIN cleanup_awaited :
          tasks[cleanup_awaited[i]].status = "done" /\ ~tasks[cleanup_awaited[i]].raised
    /\ cleanup_close_current(<<>>)
    /\ UNCHANGED <<user_identity, report_log>>
    /\ cleanup_frame

\* line 119 returns once every awaited task has ended; line 120
cleanup_gathered ==
    /\ cleanup_pc = "gather"
    /\ \A i \in DOMAIN cleanup_awaited : tasks[cleanup_awaited[i]].status = "done"
    /\ cleanup_close_current(<<>>)
    /\ UNCHANGED <<user_identity, report_log>>
    /\ cleanup_frame

\* line 124 returns (or raises inside _cleanup_memory, which logs it)
cleanup_closed ==
    /\ cleanup_pc = "close"
    /\ cleanup_pc' = "done"
    /\ UNCHANGED <<user_identity, _cleanup_tasks, cleanup_awaited, memories,
                   report_log>>
    /\ cleanup_frame

Next ==
    \/ handle_full_config
    \/ handle_full_config_resume
    \/ update_voice
    \/ update_llm
    \/ update_persona
    \/ cleanup_task_start
    \/ cleanup_task_done
    \/ cleanup
    \/ cleanup_gathered
    \/ cleanup_closed

Spec == Init /\ [][Next]_vars

(***************************************************************************)
(* Provider inference on its own: update_voice lines 200-216 and           *)
(* provider.py detect_provider_change, applied to one voice delta and one  *)
(* current provider.  The session stands still.                            *)
(***************************************************************************)
\* the providers a voice config can name (provider.py line 49)
Providers == {PrefixProviders[i] : i \in DOMAIN PrefixProviders}

\* model ids: absent, empty, "provider/model" for every recognised prefix,
\* a prefix in mixed case, an unrecognised prefix, the model-name families
\* of lines 54-67, and a name of no family
Models ==
    {None, "", "azure/neural", "OpenAI/tts-1", "custom-model",
     "eleven_flash_v2", "tts-1-hd", "sonic-2", "aura-2", "mistv2"}
    \cup {p \o "/modelX" : p \in Providers}

\* voice ids: absent, empty, OpenAI names, a name of no provider, 19, 20 and
\* 36 alphanumeric characters, 36 characters with four and with three hyphens
Voices ==
    {None, "", "alloy", "Nova", "orion",
     "JBFqnCBsd6RMkjVDRZz", "JBFqnCBsd6RMkjVDRZzb",
     "79a125e8cd454c138a67188112f4dd220000",
     "79a125e8-cd45-4c13-8a67-188112f4dd22",
     "79a125e8-cd45-4c13-8a67188112f4dd220"}

\* the voice delta that carries the given fields (None: the key is absent)
VoiceDelta(tts_provider, tts_model, tts_voice) ==
    LET fields == [tts_provider |-> tts_provider, tts_model |-> tts_model,
                   tts_voice |-> tts_voice]
    IN [k \in {f \in DOMAIN fields : fields[f] # None} |-> fields[k]]

ProviderDeltas ==
    {VoiceDelta(p, m, v) : p \in Providers \cup {None}, m \in Models, v \in Voices}

InitDetect ==
    /\ InitSession
    /\ callers = <<>>
    /\ room_name = None
    /\ ~internal_api_key
    /\ ~zep_api_key
    /\ user_identity = None
    /\ probe \in {[stage |-> "input", current_provider |-> a, config |-> c,
                   new_provider |-> None, provider_changed |-> FALSE] :
                     a \in Providers, c \in ProviderDeltas}

\* what stands still while a provider.py function is applied
SessionUnchanged ==
    UNCHANGED <<agents, personas, memories, tasks, current_agent, user_identity,
                room_name, greeting_delivered, _cleanup_tasks, usage,
                session_agent, pending_full, cleanup_pc, cleanup_awaited,
                zep_api_key, internal_api_key, report_log, callers,
                delta_log, factory_log, swap_log, live_updates,
                instruction_updates, last_op>>

\* update_voice lines 200-209: detect_provider_change on the delta's model
\* and voice
call_detect_provider_change ==
    /\ probe.stage = "input"
    /\ LET detected == detect_provider_change(probe.current_provider,
                                              Get(probe.config, "tts_model"),
                                              Get(probe.config, "tts_voice"))
       IN probe' = [probe EXCEPT !.stage = "detected",
                                 !.new_provider = detected[1],
                                 !.provider_changed = detected[2]]
    /\ SessionUnchanged

\* update_voice lines 200-216: detection followed by the explicit override
call_resolve_tts_provider ==
    /\ probe.stage = "input"
    /\ LET resolved == resolve_tts_provider(probe.current_provider, probe.config)
       IN probe' = [probe EXCEPT !.stage = "resolved",
                                 !.new_provider = resolved[1],
                                 !.provider_changed = resolved[2]]
    /\ SessionUnchanged

NextDetect == call_detect_provider_change \/ call_resolve_tts_provider

SpecDetect == InitDetect /\ [][NextDetect]_vars

(***************************************************************************)
(* The voice deltas on their own: a session that receives full configs     *)
(* naming a TTS provider and voice deltas, and is not shut down.           *)
(***************************************************************************)
\* full configs that set up an ElevenLabs and a Cartesia voice
VoiceSetups ==
    {[type |-> "config", kwamiId |-> "kwami-1",
      voice |-> [tts |-> [provider |-> "elevenlabs",
                          model |-> "elevenlabs/eleven_turbo_v2_5",
                          voice |-> "JBFqnCBsd6RMkjVDRZzb"]],
      persona |-> [systemPrompt |-> "You are Nova."]],
     [type |-> "config",
      voice |-> [tts |-> [provider |-> "cartesia", model |-> "sonic-2",
                          voice |-> "79a125e8-cd45-4c13-8a67-188112f4dd22",
                          speed |-> 12]],
      persona |-> [name |-> "Nova", personality |-> "A calm guide"]]}

\* voice deltas: an explicit provider alone and against a model of another
\* provider, a voice id alone, speeds (new, the default, zero), a voice of
\* no provider with a speed, and STT changes alone and next to TTS changes
WideVoicePayloads ==
    {[tts_provider |-> "cartesia"],
     [tts_provider |-> "openai", tts_model |-> "elevenlabs/eleven_turbo_v2_5"],
     [tts_voice |-> "79a125e8-cd45-4c13-8a67-188112f4dd22"],
     [tts_speed |-> 12],
     [tts_speed |-> 10],
     [tts_speed |-> 0],
     [tts_voice |-> "orion", tts_speed |-> 10],
     [stt_model |-> "nova-3"],
     [tts_provider |-> "elevenlabs", stt_model |-> "nova-3"],
     [tts_speed |-> 12, stt_provider |-> "openai", stt_model |-> "whisper-1"]}

NextVoice ==
    \/ handle_full_config_from(VoiceSetups)
    \/ handle_full_config_resume
    \/ update_voice_from(WideVoicePayloads)

SpecVoice == Init /\ [][NextVoice]_vars

(***************************************************************************)
(* The patch in place on its own: full configs that name the ElevenLabs    *)
(* provider as a client may spell it (create_tts lowers the name, line 89  *)
(* of factories/tts.py, update_voice compares it as stored, line 223) and  *)
(* voice deltas that bring a voice, a speed or both, or the stored STT     *)
(* model under its prefixed name.                                          *)
(***************************************************************************)
CasedVoiceSetups ==
    {[type |-> "config", kwamiId |-> "kwami-1",
      voice |-> [tts |-> [provider |-> "ElevenLabs",
                          model |-> "eleven_turbo_v2_5",
                          voice |-> "JBFqnCBsd6RMkjVDRZzb"]],
      persona |-> [systemPrompt |-> "You are Nova."]],
     [type |-> "config",
      voice |-> [tts |-> [provider |-> "elevenlabs",
                          model |-> "eleven_turbo_v2_5",
                          voice |-> "JBFqnCBsd6RMkjVDRZzb", speed |-> 12]],
      persona |-> [name |-> "Nova", personality |-> "A calm guide"]]}

PatchPayloads ==
    {[tts_voice |-> "orion"],
     [tts_speed |-> 12],
     [tts_voice |-> "orion", tts_speed |-> 12],
     [tts_voice |-> "alloy", tts_speed |-> 10],
     [stt_provider |-> "deepgram", stt_model |-> "deepgram/nova-2"]}

NextPatch ==
    \/ handle_full_config_from(CasedVoiceSetups)
    \/ handle_full_config_resume
    \/ update_voice_from(PatchPayloads)

SpecPatch == Init /\ [][NextPatch]_vars

(***************************************************************************)
(* usage/tracker.py.  A metrics event is a record of the attributes it     *)
(* has.  _usage maps "type:model_id" to a ModelUsage.  Token and character *)
(* counts are whole; an audio duration is given in microseconds and STT    *)
(* minutes are kept in units of 1e-7 minute, one place below the six       *)
(* decimals get_usage_summary rounds to.                                   *)
(***************************************************************************)
MaxEvents == 2

\* getattr(obj, name, default)
getattr(obj, name, default) == IF Has(obj, name) THEN obj[name] ELSE default

\* a variant that leaves the provider out of the model id
_get_model_id_bare(metrics) ==
    LET metadata == getattr(metrics, "metadata", EmptyDict)
        name == getattr(metadata, "model_name", None)
    IN IF Truthy(name) THEN name
       ELSE IF Truthy(getattr(metrics, "label", None)) THEN metrics.label
       ELSE "unknown"

\* lines 32-42; an event without metadata (None) has no such attribute
_get_model_id(metrics) ==
    LET metadata == getattr(metrics, "metadata", EmptyDict)
        provider == getattr(metadata, "model_provider", None)
        name == getattr(metadata, "model_name", None)
    IN IF Truthy(provider) /\ Truthy(name) THEN provider \o "/" \o name
       ELSE IF Truthy(name) THEN name
       ELSE IF Truthy(getattr(metrics, "label", None)) THEN metrics.label
       ELSE "unknown"

\* a variant that always sums prompt and completion tokens
measured_by_sum(model_type, metrics) ==
    CASE model_type \in {"llm", "realtime"} ->
            getattr(metrics, "prompt_tokens", 0)
               + getattr(metrics, "completion_tokens", 0)
      [] model_type = "stt" -> getattr(metrics, "audio_duration", 0)
      [] model_type = "tts" -> getattr(metrics, "characters_count", 0)

\* the quantity an entry point tests against zero: lines 74-79, 102-104,
\* 128-130, 153-155
measured(model_type, metrics) ==
    CASE model_type = "llm" ->
            IF getattr(metrics, "total_tokens", 0) # 0 THEN metrics.total_tokens
            ELSE getattr(metrics, "prompt_tokens", 0)
                    + getattr(metrics, "completion_tokens", 0)
      [] model_type = "stt" -> getattr(metrics, "audio_duration", 0)
      [] model_type = "tts" -> getattr(metrics, "characters_count", 0)
      [] model_type = "realtime" -> getattr(metrics, "total_tokens", 0)

\* the units added for a measured quantity; line 107: minutes = seconds / 60.0
units(model_type, quantity) ==
    IF model_type = "stt" THEN quantity \div 6 ELSE quantity

\* a variant that sets the total to the amount of the last event
record_usage_replacing(u, model_type, model_id, amount) ==
    LET key == model_type \o ":" \o model_id
    IN [k \in DOMAIN u \cup {key} |->
           IF k = key
           THEN [model_type |-> model_type, model_id |-> model_id,
                 total_units |-> amount,
                 event_count |-> IF key \in DOMAIN u THEN u[key].event_count + 1 ELSE 1]
           ELSE u[k]]

\* lines 57-62 and the body of "with self._lock": the entry is created when
\* its key is new, then total_units and event_count are raised
record_usage(u, model_type, model_id, amount) ==
    LET key == model_type \o ":" \o model_id
        entry == IF key \in DOMAIN u THEN u[key]
                 ELSE [model_type |-> model_type, model_id |-> model_id,
                       total_units |-> 0, event_count |-> 0]
    IN [k \in DOMAIN u \cup {key} |->
           IF k = key
           THEN [entry EXCEPT !.total_units = @ + amount, !.event_count = @ + 1]
           ELSE u[k]]

\* a variant without the test against zero
on_metrics_unchecked(u, model_type, metrics) ==
    record_usage(u, model_type, _get_model_id(metrics),
                 units(model_type, measured(model_type, metrics)))

\* one entry point of UsageTracker applied to an event
on_metrics(u, model_type, metrics) ==
    IF measured(model_type, metrics) <= 0 THEN u
    ELSE record_usage(u, model_type, _get_model_id(metrics),
                      units(model_type, measured(model_type, metrics)))

\* line 185: round(total_units, 6)
round6(model_type, total_units) ==
    IF model_type = "stt" THEN ((total_units + 5) \div 10) * 10 ELSE total_units

\* lines 172-187: the row appended for each entry visited
get_usage_summary(u) ==
    [k \in {e \in DOMAIN u : u[e].total_units > 0} |->
        [model_type |-> u[k].model_type, model_id |-> u[k].model_id,
         units_used |-> round6(u[k].model_type, u[k].total_units)]]

\* the events recorded so far
RECURSIVE event_total(_)
event_total(u) ==
    IF DOMAIN u = {} THEN 0
    ELSE LET k == CHOOSE e \in DOMAIN u : TRUE
         IN u[k].event_count + event_total([e \in DOMAIN u \ {k} |-> u[e]])

\* how an event names its model: provider and name, a name alone (also one
\* that reads like "provider/name"), a provider alone next to a label, a
\* label alone, nothing
ModelNamings ==
    {[metadata |-> [model_provider |-> "openai", model_name |-> "gpt-4o"],
      label |-> "livekit.llm"],
     [metadata |-> [model_provider |-> None, model_name |-> "gpt-4o"]],
     [metadata |-> [model_name |-> "openai/gpt-4o"]],
     [metadata |-> [model_provider |-> "openai", model_name |-> ""],
      label |-> "livekit.llm"],
     [label |-> "livekit.llm"],
     EmptyDict}

\* what an event measures: tokens with and without an explicit total, zero
\* and negative quantities, durations of 90 s, 12 and 0 microseconds
Measures(model_type) ==
    CASE model_type \in {"llm", "realtime"} ->
            {[total_tokens |-> 180, prompt_tokens |-> 150, completion_tokens |-> 50],
             [prompt_tokens |-> 150, completion_tokens |-> 50],
             [total_tokens |-> 0, prompt_tokens |-> 0, completion_tokens |-> 0],
             [total_tokens |-> 0 - 5, prompt_tokens |-> 150, completion_tokens |-> 50]}
      [] model_type = "stt" ->
            {[audio_duration |-> 90000000], [audio_duration |-> 12],
             [audio_duration |-> 0], [audio_duration |-> 0 - 6]}
      [] model_type = "tts" ->
            {[characters_count |-> 42], [characters_count |-> 0],
             [characters_count |-> 0 - 1]}

\* a metrics event: a naming joined with a measure
Metrics(model_type) ==
    {[a \in DOMAIN n \cup DOMAIN m |-> IF a \in DOMAIN n THEN n[a] ELSE m[a]] :
        n \in ModelNamings, m \in Measures(model_type)}

\* what an entry point leaves alone
TrackerFrame ==
    UNCHANGED <<agents, personas, memories, tasks, current_agent, user_identity,
                room_name, greeting_delivered, _cleanup_tasks, session_agent,
                pending_full, cleanup_pc, cleanup_awaited, zep_api_key,
                internal_api_key, report_log, delta_log, factory_log,
                swap_log, live_updates, instruction_updates, last_op>>

\* an entry point called from the event loop with one of the given events
on_metrics_from(model_type, events) ==
    /\ event_total(usage) < MaxEvents
    /\ \E metrics \in events :
          /\ usage' = on_metrics(usage, model_type, metrics)
          /\ probe' = [stage |-> "event", model_type |-> model_type,
                       metrics |-> metrics]
    /\ UNCHANGED callers
    /\ TrackerFrame

on_llm_metrics == on_metrics_from("llm", Metrics("llm"))
on_stt_metrics == on_metrics_from("stt", Metrics("stt"))
on_tts_metrics == on_metrics_from("tts", Metrics("tts"))
on_realtime_metrics == on_metrics_from("realtime", Metrics("realtime"))

\* get_usage_summary() and has_usage read by a caller
read_usage ==
    /\ probe' = [stage |-> "read", rows |-> get_usage_summary(usage),
                 has_usage |-> has_usage]
    /\ UNCHANGED <<usage, callers>>
    /\ TrackerFrame

\* UsageReporter.report() called with the tracker, in any state of it; an
\* answer is drawn when it POSTs
report ==
    /\ \E response \in IF has_usage /\ internal_api_key THEN Responses
                       ELSE {[arrived |-> FALSE, status |-> 0, body |-> ""]} :
          probe' = [stage |-> "report", used |-> has_usage,
                    key |-> internal_api_key,
                    outcome |-> report_result(has_usage, internal_api_key, response)]
    /\ UNCHANGED <<usage, callers>>
    /\ TrackerFrame

InitTracker ==
    /\ InitSession
    /\ ~zep_api_key
    /\ user_identity = None /\ room_name = None
    /\ probe = NoProbe
    /\ callers = <<>>

NextTracker ==
    \/ on_llm_metrics
    \/ on_stt_metrics
    \/ on_tts_metrics
    \/ on_realtime_metrics
    \/ read_usage
    \/ report

SpecTracker == InitTracker /\ [][NextTracker]_vars

(***************************************************************************)
(* The tracker called from several threads.  callers holds the holder of   *)
(* UsageTracker._lock, the position of every caller, the number of calls   *)
(* entered and, as history, the usage map the completed calls amount to.   *)
(* A step is what a thread does between two points where another thread   *)
(* can run: "entry.total_units += tokens" is a load and a store.           *)
(***************************************************************************)
Sources == {"source-1", "source-2"}
Reader == "reader"

Idle == [pc |-> "idle", call |-> "", model_id |-> "", amount |-> 0, loaded |-> 0]

\* the events of the sources: one naming, every measure of the type
LockMetrics(model_type) ==
    {m \in Metrics(model_type) :
        Has(m, "label") /\ Has(m, "metadata") /\ m.metadata.model_name = "gpt-4o"}

\* a variant in which "with self._lock" lets every caller in
lock_ignored == TRUE

\* Lock.acquire() returns when no thread holds the lock
lock_free == callers.lock = None

\* lines 68-80 (96-105, 122-131, 147-156): the call up to "with self._lock"
enter(t) ==
    /\ callers.at[t].pc = "idle"
    /\ callers.entered < MaxEvents
    /\ \E model_type \in {"llm", "tts"} : \E metrics \in LockMetrics(model_type) :
          callers' =
             [callers EXCEPT
                 !.entered = @ + 1,
                 !.at[t] = IF measured(model_type, metrics) <= 0 THEN Idle
                           ELSE [pc |-> "lock", call |-> model_type,
                                 model_id |-> _get_model_id(metrics),
                                 amount |-> units(model_type, measured(model_type, metrics)),
                                 loaded |-> 0]]
    /\ UNCHANGED <<usage, probe>>
    /\ TrackerFrame

\* lines 172-180, 194-197: get_usage_summary() or has_usage up to the lock
enter_read ==
    /\ callers.at[Reader].pc = "idle"
    /\ \E call \in {"has_usage", "get_usage_summary"} :
          callers' = [callers EXCEPT !.at[Reader] = [Idle EXCEPT !.pc = "lock", !.call = call]]
    /\ UNCHANGED <<usage, probe>>
    /\ TrackerFrame

\* "with self._lock:" entered
acquire(t) ==
    /\ callers.at[t].pc = "lock"
    /\ lock_free
    /\ callers' = [callers EXCEPT !.at[t].pc = "section", !.lock = t]
    /\ UNCHANGED <<usage, probe>>
    /\ TrackerFrame

\* lines 83-84: _get_or_create and the load of entry.total_units
load_total(t) ==
    LET c == callers.at[t]
        key == c.call \o ":" \o c.model_id
        created == record_usage(usage, c.call, c.model_id, 0)
    IN /\ c.pc = "section" /\ t \in Sources
       /\ usage' = IF key \in DOMAIN usage THEN usage
                   ELSE [created EXCEPT ![key].event_count = 0]
       /\ callers' = [callers EXCEPT !.at[t].pc = "total",
                                      !.at[t].loaded = usage'[key].total_units]
       /\ UNCHANGED probe
       /\ TrackerFrame

\* line 84: the store of entry.total_units
store_total(t) ==
    LET c == callers.at[t]
        key == c.call \o ":" \o c.model_id
    IN /\ c.pc = "total"
       /\ usage' = [usage EXCEPT ![key].total_units = c.loaded + c.amount]
       /\ callers' = [callers EXCEPT !.at[t].pc = "count"]
       /\ UNCHANGED probe
       /\ TrackerFrame

\* line 85: entry.event_count += 1
store_count(t) ==
    LET c == callers.at[t]
        key == c.call \o ":" \o c.model_id
    IN /\ c.pc = "count"
       /\ usage' = [usage EXCEPT ![key].event_count = @ + 1]
       /\ callers' = [callers EXCEPT !.at[t].pc = "unlock"]
       /\ UNCHANGED probe
       /\ TrackerFrame

\* lines 180-187, 196-198: the read made inside the lock
snapshot ==
    LET c == callers.at[Reader]
    IN /\ c.pc = "section"
       /\ probe' = IF c.call = "has_usage"
                   THEN [stage |-> "read", call |-> c.call, seen |-> usage,
                         has_usage |-> has_usage]
                   ELSE [stage |-> "read", call |-> c.call, seen |-> usage,
                         rows |-> get_usage_summary(usage)]
       /\ callers' = [callers EXCEPT !.at[Reader].pc = "unlock"]
       /\ UNCHANGED usage
       /\ TrackerFrame

\* the end of "with self._lock": the lock is released and the call returns
release(t) ==
    LET c == callers.at[t]
    IN /\ c.pc = "unlock"
       /\ callers' =
             [callers EXCEPT
                 !.at[t] = Idle,
                 !.lock = None,
                 !.applied = IF t \in Sources
                             THEN record_usage(@, c.call, c.model_id, c.amount)
                             ELSE @]
       /\ UNCHANGED <<usage, probe>>
       /\ TrackerFrame

InitLock ==
    /\ InitSession
    /\ ~zep_api_key /\ ~internal_api_key
    /\ user_identity = None /\ room_name = None
    /\ probe = NoProbe
    /\ callers = [lock |-> None, entered |-> 0, applied |-> EmptyDict,
                  at |-> [t \in Sources \cup {Reader} |-> Idle]]

NextLock ==
    \/ \E t \in Sources : enter(t) \/ load_total(t) \/ store_total(t) \/ store_count(t)
    \/ enter_read
    \/ snapshot
    \/ \E t \in Sources \cup {Reader} : acquire(t) \/ release(t)

SpecLock == InitLock /\ [][NextLock]_vars

(***************************************************************************)
(* The session with its usage tracker and reporter: generation events and  *)
(* reads next to configs, deltas and the shutdown with its report.  The    *)
(* room name is set, as create_session_state sets it when it is given one. *)
(***************************************************************************)
InitBilling ==
    /\ InitSession
    /\ zep_api_key /\ internal_api_key
    /\ user_identity = "user-1"
    /\ room_name = "room-1"
    /\ probe = NoProbe
    /\ callers = <<>>

NextBilling ==
    \/ on_metrics_from("llm", {m \in LockMetrics("llm") : measured("llm", m) > 0})
    \/ handle_full_config_from({m \in FullMessages : Has(m, "memory")})
    \/ handle_full_config_resume
    \/ update_llm
    \/ cleanup_task_start
    \/ cleanup_task_done
    \/ cleanup
    \/ cleanup_reported
    \/ cleanup_gathered
    \/ cleanup_closed

SpecBilling == InitBilling /\ [][NextBilling]_vars

(***************************************************************************)
(* The shutdown of a session, with or without identity, room name and API  *)
(* keys: generation events, configs that name a kwami and open a memory,   *)
(* the cleanup tasks and cleanup().                                        *)
(***************************************************************************)
InitShutdown ==
    /\ InitSession
    /\ probe = NoProbe
    /\ callers = <<>>

NextShutdown ==
    \/ on_metrics_from("llm", {m \in LockMetrics("llm") : Has(m, "total_tokens") /\ m.total_tokens > 0})
    \/ handle_full_config_from({m \in FullMessages : Has(m, "memory")})
    \/ handle_full_config_resume
    \/ cleanup_task_start
    \/ cleanup_task_done
    \/ cleanup
    \/ cleanup_reported
    \/ cleanup_gathered
    \/ cleanup_closed

SpecShutdown == InitShutdown /\ [][NextShutdown]_vars

\* the same steps in a session that reports, under the scheduling of
\* asyncio: the event loop runs every task that is ready, a close() returns
\* or raises, and the POST of the report is answered or fails within the
\* timeout of the HTTP client
SpecTeardown ==
    /\ InitBilling /\ [][NextShutdown]_vars
    /\ WF_vars(cleanup_task_start) /\ WF_vars(cleanup_task_done)
    /\ WF_vars(cleanup_reported) /\ WF_vars(cleanup_gathered)
    /\ WF_vars(cleanup_closed)

(***************************************************************************)
(* Properties of the memory handles and the cleanup tasks.                 *)
(***************************************************************************)
\* the memory carried by the current agent (NoMemory if it carries none)
current_memory == agents[current_agent]._memory

\* C1: close() is invoked at most once on each memory handle, counting the
\* closes of the background cleanup tasks and the final close of cleanup(),
\* over every sequence of deltas, failed ones included.
C1_CloseAtMostOnce ==
    \A m \in DOMAIN memories : memories[m].close_calls <= 1

\* C2: when cleanup() has returned, every cleanup task that update_agent
\* scheduled has completed and the list of tracked cleanup tasks is empty.
C2_TasksDrainedAtReturn ==
    cleanup_pc = "done" =>
        /\ \A t \in DOMAIN tasks : tasks[t].status = "done"
        /\ _cleanup_tasks = <<>>

\* C3: every memory handle opened by handle_full_config has been closed by
\* the time cleanup() returns, also when the factory call after the open
\* raised and the swap was abandoned.
C3_NoHandleLeak ==
    cleanup_pc = "done" =>
        \A m \in DOMAIN memories : memories[m].close_calls >= 1

\* C4: before cleanup() begins, no cleanup task has been scheduled for the
\* memory handle of the current agent and no close has been issued on it,
\* also when the session runtime's update_agent raised and the old agent
\* stayed current.
C4_CurrentHandleUntouched ==
    (cleanup_pc = "idle" /\ current_memory # NoMemory) =>
        /\ \A t \in DOMAIN tasks : tasks[t].memory # current_memory
        /\ memories[current_memory].close_calls = 0

\* a call of update_agent whose handles differ
handles_differ(swap) == swap.new_memory # swap.old_memory

\* a call of update_agent whose outgoing agent carries a handle that the
\* incoming agent does not carry
releases_handle(swap) ==
    swap.old_memory # NoMemory /\ swap.new_memory # swap.old_memory

\* C5 as stated: the number of scheduled cleanup tasks equals the number of
\* swaps whose incoming and outgoing handles differ.
C5_OneTaskPerDifferingSwap ==
    Len(tasks) = Len(SelectSeq(swap_log, handles_differ))

\* C5: update_agent schedules exactly one cleanup task, for the outgoing
\* handle, on every call where the outgoing agent carries a handle and the
\* incoming agent carries a different one or none, and no task on any other
\* call; the scheduled tasks are, in order, those calls' outgoing handles.
C5_OneTaskPerReleasedHandle ==
    LET released == SelectSeq(swap_log, releases_handle)
    IN /\ Len(tasks) = Len(released)
       /\ \A k \in DOMAIN tasks : tasks[k].memory = released[k].old_memory

\* a swap from the placeholder (no handle) to a first handle scheduled
\* nothing, and the swap away from that handle scheduled the one task
C5_Witness ==
    /\ Len(swap_log) = 2
    /\ swap_log[1].old_memory = NoMemory /\ swap_log[1].new_memory # NoMemory
    /\ swap_log[1].committed
    /\ releases_handle(swap_log[2])
    /\ Len(tasks) = 1

(***************************************************************************)
(* Properties of the delta handlers.                                       *)
(***************************************************************************)
\* a step in which a delta handler runs to its end
handler_ends ==
    /\ delta_log' # delta_log \/ Len(pending_full') < Len(pending_full)
    /\ last_op'.outcome # "suspended"

\* C6: a delta that fails in parsing, memory opening or construction leaves
\* the current instance and its stored config, the greeting flag,
\* user_identity and the cleanup tasks exactly as they were.
C6_FailedDeltaChangesNothing ==
    [][(handler_ends /\ last_op'.outcome \in {"parse_error", "factory_error"}) =>
          /\ current_agent' = current_agent
          /\ agents'[current_agent] = agents[current_agent]
          /\ personas'[agents[current_agent].kwami_config.persona] =
                personas[agents[current_agent].kwami_config.persona]
          /\ greeting_delivered' = greeting_delivered
          /\ user_identity' = user_identity
          /\ _cleanup_tasks' = _cleanup_tasks]_vars

\* the first full-config delta received
first_full ==
    CHOOSE i \in DOMAIN delta_log :
        delta_log[i] = "full" /\ \A j \in 1..(i - 1) : delta_log[j] # "full"

\* C7 as stated: the first full-config delta received calls the factory
\* with suppression off and every later one with suppression on, whether or
\* not an earlier full-config delta failed.
C7_FirstFullGreetsLaterSuppress ==
    \A k \in DOMAIN factory_log :
        factory_log[k].source = "full" =>
            factory_log[k].skip_greeting = (factory_log[k].delta # first_full)

\* C7: a full-config delta calls the factory with suppression off as long
\* as no earlier full-config delta has completed its swap, and with
\* suppression on once one has; the flag is set exactly by such a swap.
C7_GreetingUntilFirstSwap ==
    /\ \A k \in DOMAIN factory_log :
          factory_log[k].source = "full" =>
              factory_log[k].skip_greeting =
                  (\E j \in 1..(k - 1) : /\ factory_log[j].source = "full"
                                         /\ factory_log[j].committed)
    /\ greeting_delivered =
          (\E k \in DOMAIN factory_log : /\ factory_log[k].source = "full"
                                         /\ factory_log[k].committed)

\* a full config swapped in unsuppressed, and a later one suppressed
C7_Witness ==
    \E j, k \in DOMAIN factory_log :
        /\ j < k
        /\ factory_log[j].source = "full" /\ factory_log[k].source = "full"
        /\ factory_log[j].committed /\ ~factory_log[j].skip_greeting
        /\ factory_log[k].skip_greeting

\* C8: current_agent is never empty and always is the instance most
\* recently handed to the session runtime, and user_identity, once set, is
\* never changed or cleared.
C8_OneCurrentStableIdentity ==
    /\ current_agent # NoAgent /\ current_agent = session_agent
    /\ [][/\ current_agent' # NoAgent
          /\ current_agent' \in DOMAIN agents'
          /\ current_agent' = session_agent'
          /\ Truthy(user_identity) => user_identity' = user_identity]_vars

\* a full config that names another kwamiId was swapped in while the
\* identity of the participant was set
C8_Witness ==
    /\ user_identity = "user-1"
    /\ current_agent > 1
    /\ agents[current_agent].kwami_config.kwami_id = "kwami-1"
    /\ swap_log[Len(swap_log)].committed

\* a step that is an llm delta
llm_delta == delta_log' = Append(delta_log, "llm")

\* C9: an llm delta that succeeds makes exactly one swap to a new instance
\* that carries the memory handle of the outgoing one; no llm delta
\* schedules a cleanup task or closes a handle.
C9_LlmKeepsHandle ==
    [][llm_delta =>
          /\ tasks' = tasks
          /\ _cleanup_tasks' = _cleanup_tasks
          /\ memories' = memories
          /\ last_op'.outcome = "ok" =>
                /\ Len(swap_log') = Len(swap_log) + 1
                /\ Len(agents') = Len(agents) + 1
                /\ current_agent' = Len(agents')
                /\ agents'[current_agent']._memory = agents[current_agent]._memory]_vars

\* an llm delta has replaced an instance that carried a memory handle
C9_Witness ==
    /\ last_op.op = "llm" /\ last_op.outcome = "ok"
    /\ current_memory # NoMemory
    /\ swap_log[Len(swap_log)].old_memory = current_memory

\* a step that is a persona delta
persona_delta == delta_log' = Append(delta_log, "persona")

\* the persona field each recognised key of a persona delta names
persona_field ==
    [name |-> "name", personality |-> "personality",
     systemPrompt |-> "system_prompt", system_prompt |-> "system_prompt",
     traits |-> "traits", conversationStyle |-> "conversation_style",
     conversation_style |-> "conversation_style",
     responseLength |-> "response_length", response_length |-> "response_length",
     emotionalTone |-> "emotional_tone", emotional_tone |-> "emotional_tone"]

named_fields(keys) == {persona_field[k] : k \in keys \cap DOMAIN persona_field}

\* C10: a persona delta leaves the current instance, the factory and the
\* cleanup tasks alone; of the persona only the fields the delta names
\* change, of the instances only the instructions of the current one, and
\* one live instruction update follows when the delta names a field.
C10_PersonaPatchedInPlace ==
    [][persona_delta =>
          LET ref == agents[current_agent].kwami_config.persona
              named == named_fields(last_op'.keys)
          IN /\ current_agent' = current_agent
             /\ session_agent' = session_agent
             /\ factory_log' = factory_log
             /\ swap_log' = swap_log
             /\ tasks' = tasks
             /\ _cleanup_tasks' = _cleanup_tasks
             /\ memories' = memories
             /\ Len(agents') = Len(agents)
             /\ \A a \in DOMAIN agents :
                   /\ [agents'[a] EXCEPT !.instructions = ""] =
                         [agents[a] EXCEPT !.instructions = ""]
                   /\ a # current_agent => agents'[a] = agents[a]
             /\ Len(personas') = Len(personas)
             /\ \A r \in DOMAIN personas :
                   r # ref => personas'[r] = personas[r]
             /\ \A f \in DOMAIN personas[ref] :
                   f \notin named => personas'[ref][f] = personas[ref][f]
             /\ instruction_updates' =
                   instruction_updates + (IF named = {} THEN 0 ELSE 1)]_vars

\* a persona delta naming two fields has been applied to a swapped-in
\* instance, whose instructions were updated once
C10_Witness ==
    /\ last_op.op = "persona" /\ last_op.outcome = "ok"
    /\ last_op.keys = {"system_prompt", "emotionalTone"}
    /\ current_agent > 1
    /\ instruction_updates = 1
    /\ personas[agents[current_agent].kwami_config.persona].emotional_tone = "calm"

(***************************************************************************)
(* Properties of the provider inference (SpecDetect).                      *)
(***************************************************************************)
\* the shapes of provider.py lines 85 and 89
long_alphanumeric(voice) == Len(voice) >= ElevenLabsMinLen /\ isalnum(voice)
uuid_shaped(voice) == Len(voice) = UuidLen /\ count(voice, "-") = UuidHyphens

\* C12: in update_voice an explicit tts_provider is authoritative: for every
\* current provider, model id and voice id the resolved provider is the
\* explicit one, and the provider counts as changed (the instance is
\* replaced on account of the provider) iff the explicit provider differs
\* from the current one.
C12_ExplicitProviderAuthoritative ==
    (probe.stage = "resolved" /\ GetTruthy(probe.config, "tts_provider")) =>
        /\ probe.new_provider = probe.config.tts_provider
        /\ probe.provider_changed
              = (probe.config.tts_provider # probe.current_provider)
        /\ replaces_tts([KwamiVoiceConfig EXCEPT
                            !.tts_provider = probe.current_provider],
                        probe.config)
              = (probe.config.tts_provider # probe.current_provider)

\* an explicit provider with a model and a voice shaped for two other providers
C12_Witness ==
    /\ probe.stage = "resolved"
    /\ probe.current_provider = "cartesia"
    /\ probe.config = [tts_provider |-> "openai",
                       tts_model |-> "elevenlabs/modelX",
                       tts_voice |-> "79a125e8-cd45-4c13-8a67-188112f4dd22"]
    /\ probe.new_provider = "openai"
    /\ probe.provider_changed

\* C13: detect_provider_change with current provider A, a model id
\* "B/modelX" whose prefix B is a provider other than A, and any voice id
\* (absent or of any shape) returns provider B and changed = TRUE.
C13_PrefixedModelDecides ==
    probe.stage = "detected" =>
        \A B \in Providers :
            (Get(probe.config, "tts_model") = B \o "/modelX"
             /\ B # probe.current_provider)
            => probe.new_provider = B /\ probe.provider_changed

\* a prefixed model of another provider next to a voice id shaped for a third
C13_Witness ==
    /\ probe.stage = "detected"
    /\ probe.current_provider = "openai"
    /\ Get(probe.config, "tts_model") = "cartesia/modelX"
    /\ Get(probe.config, "tts_voice") = "JBFqnCBsd6RMkjVDRZzb"
    /\ probe.new_provider = "cartesia"
    /\ probe.provider_changed

\* C14: whenever detect_tts_provider_from_model yields a provider P for the
\* new model id, detect_provider_change returns P for every voice id, also
\* when P is the current provider and the voice id has the shape of another
\* provider (changed is then FALSE).
C14_ModelPrecedesVoice ==
    LET P == detect_tts_provider_from_model(Get(probe.config, "tts_model"))
    IN (probe.stage = "detected" /\ Truthy(Get(probe.config, "tts_model"))
        /\ Truthy(P))
       => /\ probe.new_provider = P
          /\ probe.provider_changed = (P # probe.current_provider)

\* C15: with a delta whose only identifier is a voice id, a voice id of
\* UUID shape (36 characters, 4 hyphens) resolves to cartesia and one of 20
\* or more alphanumeric characters to elevenlabs, changed being reported iff
\* the current provider is another one; no voice id has both shapes.
C15_VoiceShapeDecides ==
    (probe.stage = "detected" /\ ~GetTruthy(probe.config, "tts_model")
     /\ GetTruthy(probe.config, "tts_voice")) =>
        LET voice == probe.config.tts_voice
        IN /\ uuid_shaped(voice) =>
                /\ probe.new_provider = "cartesia"
                /\ probe.provider_changed = (probe.current_provider # "cartesia")
           /\ long_alphanumeric(voice) =>
                /\ probe.new_provider = "elevenlabs"
                /\ probe.provider_changed = (probe.current_provider # "elevenlabs")
           /\ ~(uuid_shaped(voice) /\ long_alphanumeric(voice))

\* a UUID voice id alone, while another provider is current
C15_Witness ==
    /\ probe.stage = "detected"
    /\ probe.current_provider = "elevenlabs"
    /\ probe.config = [tts_voice |-> "79a125e8-cd45-4c13-8a67-188112f4dd22"]
    /\ probe.new_provider = "cartesia"
    /\ probe.provider_changed

(***************************************************************************)
(* Properties of the full config and the voice deltas (SpecVoice).         *)
(***************************************************************************)
\* the step calls the factory for the given kind of handler
factory_called(source) ==
    /\ Len(factory_log') = Len(factory_log) + 1
    /\ factory_log'[Len(factory_log')].source = source

\* the step's factory call returned an agent
factory_returned == factory_log'[Len(factory_log')].returned

\* C11: a full config that names a provider and a persona text puts the
\* text into the config (and the prompt) of the instance it creates, a
\* persona object of its own, and leaves every instance and persona object
\* that existed before, the outgoing one included, as it was.
C11_PersonaOnNewInstanceOnly ==
    [][(factory_called("full") /\ factory_returned) =>
          LET message == last_op'.config
              persona_data == GetDict(message, "persona")
              new_agent == agents'[Len(agents')]
              persona_ref == new_agent.kwami_config.persona
          IN /\ Len(agents') = Len(agents) + 1
             /\ \A a \in DOMAIN agents : agents'[a] = agents[a]
             /\ \A p \in DOMAIN personas : personas'[p] = personas[p]
             /\ persona_ref \notin DOMAIN personas
             /\ GetTruthy(persona_data, "systemPrompt") =>
                   /\ personas'[persona_ref].system_prompt = persona_data.systemPrompt
                   /\ startswith(new_agent.instructions, persona_data.systemPrompt)
             /\ GetTruthy(persona_data, "name") =>
                   personas'[persona_ref].name = persona_data.name
             /\ GetTruthy(persona_data, "personality") =>
                   personas'[persona_ref].personality = persona_data.personality
      ]_vars

\* a full config has replaced the OpenAI placeholder by an ElevenLabs agent
\* with the persona text of the message; the placeholder is as constructed
C11_Witness ==
    /\ last_op.op = "full" /\ last_op.outcome = "ok"
    /\ current_agent = Len(agents) /\ current_agent > 1
    /\ agents[current_agent].kwami_config.voice.tts_provider = "elevenlabs"
    /\ personas[agents[current_agent].kwami_config.persona].system_prompt
          = "You are Nova."
    /\ agents[1].kwami_config.voice.tts_provider = "openai"
    /\ personas[agents[1].kwami_config.persona] = KwamiPersonaConfig

\* the voice config of the current agent
current_voice == agents[current_agent].kwami_config.voice

\* C16: when update_voice replaces the instance because the TTS provider
\* changed, the config given to the factory has tts_model empty unless the
\* delta supplied a model and tts_voice empty unless the delta supplied a
\* voice; a supplied model (without its provider prefix) or voice is taken
\* from the delta.
C16_ProviderChangeClearsModelAndVoice ==
    [][(/\ factory_called("voice")
        /\ factory_returned
        /\ resolve_tts_provider(current_voice.tts_provider, last_op'.config)[2]) =>
          LET config == last_op'.config
              given == agents'[Len(agents')].kwami_config.voice
          IN /\ given.tts_provider
                   = resolve_tts_provider(current_voice.tts_provider, config)[1]
             /\ given.tts_model = IF GetTruthy(config, "tts_model")
                                  THEN strip_model_prefix(config.tts_model,
                                                          given.tts_provider)
                                  ELSE ""
             /\ given.tts_voice = IF GetTruthy(config, "tts_voice")
                                  THEN config.tts_voice ELSE ""
      ]_vars

\* the delta {tts_provider: cartesia} has replaced the OpenAI placeholder,
\* whose model and voice were set
C16_Witness ==
    /\ last_op.op = "voice" /\ last_op.path = "replace" /\ last_op.outcome = "ok"
    /\ last_op.config = [tts_provider |-> "cartesia"]
    /\ current_agent = 2
    /\ agents[1].kwami_config.voice.tts_model = "tts-1"
    /\ agents[1].kwami_config.voice.tts_voice = "nova"
    /\ current_voice.tts_provider = "cartesia"
    /\ current_voice.tts_model = ""
    /\ current_voice.tts_voice = ""

\* the step is a voice delta handled by update_voice
voice_delta == delta_log' = Append(delta_log, "voice")

\* C17: without a provider change, update_voice replaces the instance iff
\* the current provider is elevenlabs and the requested speed differs from
\* the stored one; hence after such a replacement the same delta names the
\* stored speed, so that sending it again replaces nothing, and a speed
\* equal to the stored one replaces nothing.
C17_SpeedReplacesOnce ==
    [][(/\ voice_delta
        /\ ~resolve_tts_provider(current_voice.tts_provider, last_op'.config)[2]) =>
          LET config == last_op'.config
          IN /\ (last_op'.path = "replace")
                   = (/\ current_voice.tts_provider = "elevenlabs"
                      /\ Has(config, "tts_speed")
                      /\ config.tts_speed # current_voice.tts_speed)
             /\ (last_op'.path = "replace" /\ last_op'.outcome = "ok") =>
                   ~replaces_tts(current_voice', config)
      ]_vars

\* the STT fields of the delta are those of the given voice config
stt_applied(config, voice) ==
    /\ GetTruthy(config, "stt_provider") => voice.stt_provider = config.stt_provider
    /\ GetTruthy(config, "stt_model") =>
          voice.stt_model = strip_model_prefix(config.stt_model, voice.stt_provider)

\* C18: update_voice evaluates the STT change independently of its TTS
\* decision: a voice delta that names an STT provider or model other than
\* the stored one, and whose handling succeeds, ends with the current
\* instance having the new STT provider and model, also when the same delta
\* changes the TTS provider or triggers the ElevenLabs speed replacement.
C18_SttAppliedWhateverTts ==
    [][(/\ voice_delta
        /\ last_op'.outcome = "ok"
        /\ replaces_stt(current_voice, last_op'.config)) =>
          stt_applied(last_op'.config, current_voice')
      ]_vars

\* the provider whose TTS object the agent runs, as _update_tts_options
\* tells it from the object's module (lines 286-294)
active_tts(agent) ==
    IF contains(agent.tts.module, "inference") THEN "elevenlabs"
    ELSE IF contains(agent.tts.module, "openai") THEN "openai"
    ELSE IF contains(agent.tts.module, "cartesia") THEN "cartesia"
    ELSE None

\* the voice id has the shape the provider's ids have (provider.py lines
\* 85-93, constants.py OpenAIVoices.STANDARD)
voice_fits(provider, voice) ==
    CASE provider = "openai" -> voice \in OPENAI_VOICES
      [] provider = "elevenlabs" -> long_alphanumeric(voice)
      [] provider = "cartesia" -> uuid_shaped(voice)
      [] OTHER -> TRUE

\* the calls of tts.update_options the step makes that carry a voice
voice_sent ==
    {i \in (Len(live_updates) + 1)..Len(live_updates') :
        /\ live_updates'[i].target = "tts"
        /\ {"voice", "voice_id"} \cap DOMAIN live_updates'[i].updates # {}}

\* C19: on the patch path a voice id that does not have the shape the
\* active TTS provider requires (a short non-UUID id where UUIDs are
\* required, a non-OpenAI name while OpenAI is active) is neither sent to
\* the live option update nor stored, and no error is raised.
C19_MisshapenVoiceDropped ==
    [][(/\ voice_delta
        /\ last_op'.path \in {"patch", "replace_stt"}
        /\ GetTruthy(last_op'.config, "tts_voice")
        /\ ~voice_fits(active_tts(agents[current_agent]),
                       last_op'.config.tts_voice)) =>
          /\ voice_sent = {}
          /\ agents'[current_agent].kwami_config.voice.tts_voice
                = current_voice.tts_voice
          /\ current_voice'.tts_voice = current_voice.tts_voice
          /\ last_op'.outcome = "ok"
      ]_vars

\* C20: on the patch path, the live option update of a TTS object of the
\* inference module never contains a speed field.
C20_NoSpeedToInferenceTts ==
    \A i \in DOMAIN live_updates :
        (/\ live_updates[i].target = "tts"
         /\ contains(agents[live_updates[i].agent].tts.module, "inference"))
        => "speed" \notin DOMAIN live_updates[i].updates

\* a delta with a voice and a speed has been patched into an inference TTS
C20_Witness ==
    /\ last_op.op = "voice" /\ last_op.path = "patch"
    /\ GetNumber(last_op.config, "tts_speed")
    /\ live_updates # <<>>
    /\ LET call == live_updates[Len(live_updates)]
       IN /\ call.target = "tts"
          /\ call.agent = current_agent
          /\ contains(agents[call.agent].tts.module, "inference")
          /\ DOMAIN call.updates = {"voice"}

\* C21: every model identifier handed to the factory is a bare model name:
\* no voice config of an agent the factory has built holds a TTS, STT or
\* LLM model that still starts with a recognised "provider/" prefix.
C21_BareModelNames ==
    \A a \in DOMAIN agents : \A p \in Providers :
        LET voice == agents[a].kwami_config.voice
        IN \A model \in {voice.tts_model, voice.stt_model, voice.llm_model} :
              ~startswith(model, p \o "/")

(***************************************************************************)
(* Properties of the usage tracker (SpecTracker).                          *)
(***************************************************************************)
\* the tokens of a generation or real-time event as the tracker's contract
\* has them: the explicit total when there is one, else prompt + completion
tokens_of(metrics) ==
    IF Has(metrics, "total_tokens") /\ metrics.total_tokens # 0
    THEN metrics.total_tokens
    ELSE getattr(metrics, "prompt_tokens", 0) + getattr(metrics, "completion_tokens", 0)

\* the entry of a key, absent entries counting as zero
entry_of(u, key) ==
    IF key \in DOMAIN u THEN u[key] ELSE [total_units |-> 0, event_count |-> 0]

\* the step adds the amount to the key's total, raises its event_count by
\* one and leaves every other entry alone
adds_to(key, amount) ==
    /\ DOMAIN usage' = DOMAIN usage \cup {key}
    /\ usage'[key].total_units = entry_of(usage, key).total_units + amount
    /\ usage'[key].event_count = entry_of(usage, key).event_count + 1
    /\ \A k \in DOMAIN usage \ {key} : usage'[k] = usage[k]

\* C22: in each of the four entry points an event whose measured quantity
\* (tokens, audio duration, characters) is zero or negative leaves the
\* whole usage map unchanged: no entry is created, no total and no
\* event_count changes.
C22_NonPositiveIgnored ==
    [][(probe'.stage = "event" /\
        (CASE probe'.model_type = "llm" -> tokens_of(probe'.metrics)
           [] probe'.model_type = "stt" -> getattr(probe'.metrics, "audio_duration", 0)
           [] probe'.model_type = "tts" -> getattr(probe'.metrics, "characters_count", 0)
           [] probe'.model_type = "realtime" -> getattr(probe'.metrics, "total_tokens", 0))
        <= 0)
       => usage' = usage]_vars

\* events of zero or negative measure have been offered to a tracker that
\* holds usage, and the last one was such an event
C22_Witness ==
    /\ probe.stage = "event"
    /\ probe.model_type = "stt"
    /\ probe.metrics.audio_duration = 0 - 6
    /\ DOMAIN usage = {"llm:gpt-4o"}
    /\ usage["llm:gpt-4o"].event_count = 1

\* C23: a generation event adds to its (llm, model id) total exactly the
\* explicit total_tokens when one is given (and not zero), otherwise
\* prompt_tokens + completion_tokens, and raises event_count by exactly 1.
C23_LlmTokensAdded ==
    [][(/\ probe'.stage = "event"
        /\ probe'.model_type = "llm"
        /\ tokens_of(probe'.metrics) > 0)
       => adds_to("llm:" \o _get_model_id(probe'.metrics),
                  tokens_of(probe'.metrics))]_vars

\* 150 prompt and 50 completion tokens without a total have added 200
C23_Witness ==
    /\ probe.stage = "event"
    /\ probe.model_type = "llm"
    /\ ~Has(probe.metrics, "total_tokens")
    /\ probe.metrics.prompt_tokens = 150 /\ probe.metrics.completion_tokens = 50
    /\ "llm:openai/gpt-4o" \in DOMAIN usage
    /\ usage["llm:openai/gpt-4o"].total_units = 200
    /\ usage["llm:openai/gpt-4o"].event_count = 1

\* C24: a real-time event is normalised like a generation event: it adds
\* the explicit total_tokens when one is given, otherwise prompt_tokens +
\* completion_tokens, to its (realtime, model id) total.
C24_RealtimeTokensAdded ==
    [][(/\ probe'.stage = "event"
        /\ probe'.model_type = "realtime"
        /\ tokens_of(probe'.metrics) > 0)
       => adds_to("realtime:" \o _get_model_id(probe'.metrics),
                  tokens_of(probe'.metrics))]_vars

\* C26: get_usage_summary() returns one row for each key whose total is
\* not zero and none for any other key, and no row has units_used zero,
\* also after the rounding to six decimals.
C26_NoZeroRow ==
    probe.stage = "read" =>
        /\ DOMAIN probe.rows = {k \in DOMAIN usage : usage[k].total_units # 0}
        /\ \A k \in DOMAIN probe.rows : probe.rows[k].units_used # 0

\* C28: the model id of a recorded event is "provider/name" when the
\* metadata has both, else the name when it has one, else the event's
\* label, else "unknown"; the event is recorded under the key of its
\* component type and that model id and under no other, so that two events
\* share an entry iff they agree on both.
C28_ModelIdPreference ==
    [][(probe'.stage = "event" /\ usage' # usage) =>
          LET metrics == probe'.metrics
              metadata == getattr(metrics, "metadata", EmptyDict)
              provider == getattr(metadata, "model_provider", None)
              name == getattr(metadata, "model_name", None)
              label == getattr(metrics, "label", None)
              model_id == IF Truthy(provider) /\ Truthy(name)
                          THEN provider \o "/" \o name
                          ELSE IF Truthy(name) THEN name
                          ELSE IF Truthy(label) THEN label ELSE "unknown"
              key == probe'.model_type \o ":" \o model_id
          IN /\ key \in DOMAIN usage'
             /\ usage'[key].model_type = probe'.model_type
             /\ usage'[key].model_id = model_id
             /\ usage'[key].event_count = entry_of(usage, key).event_count + 1
             /\ \A k \in DOMAIN usage' \ {key} : k \in DOMAIN usage /\ usage'[k] = usage[k]
             /\ \A k \in DOMAIN usage' :
                   k = usage'[k].model_type \o ":" \o usage'[k].model_id
      ]_vars

\* a provider/name event and a TTS event with a label only are recorded
\* under two keys
C28_Witness ==
    /\ probe.stage = "event"
    /\ probe.model_type = "tts"
    /\ ~Has(probe.metrics, "metadata")
    /\ DOMAIN usage = {"llm:openai/gpt-4o", "tts:livekit.llm"}

\* C27: has_usage is true iff some accumulator is not zero, which is iff
\* get_usage_summary() is not empty; mutations and reads run under the one
\* lock of the tracker, so with several sources calling concurrently no
\* update is lost (when no call is in progress the map is what the
\* completed calls add up to) and no reader sees an entry whose total was
\* raised without its event_count (what a reader sees is that map too).
C27_LockedTracker ==
    /\ probe.stage = "read" =>
          LET nonzero == \E k \in DOMAIN probe.seen : probe.seen[k].total_units # 0
          IN IF probe.call = "has_usage"
             THEN /\ probe.has_usage <=> nonzero
                  /\ probe.has_usage <=> DOMAIN get_usage_summary(probe.seen) # {}
             ELSE DOMAIN probe.rows # {} <=> nonzero
    /\ callers.at[Reader].pc = "section" => usage = callers.applied
    /\ (\A t \in Sources : callers.at[t].pc = "idle") => usage = callers.applied

\* a reader is inside the lock while one source waits for it with an event
\* for an entry the other source has already raised
C27_Witness ==
    /\ callers.at[Reader].pc = "section"
    /\ \E t \in Sources :
          /\ callers.at[t].pc = "lock"
          /\ callers.at[t].call = "llm"
          /\ "llm:openai/gpt-4o" \in DOMAIN usage
          /\ usage["llm:openai/gpt-4o"].event_count = 1

(***************************************************************************)
(* Properties of the usage reporter and of the shutdown (SpecTracker,      *)
(* SpecBilling).                                                           *)
(***************************************************************************)
\* C25: within a session every total and every event_count only grows, over
\* any interleaving of usage events, configs, deltas, swaps, reads and the
\* report of the shutdown: no step removes an entry or lowers one.
C25_UsageMonotonic ==
    [][\A k \in DOMAIN usage :
          /\ k \in DOMAIN usage'
          /\ usage'[k].total_units >= usage[k].total_units
          /\ usage'[k].event_count >= usage[k].event_count]_vars

\* two events have been recorded, agents have been swapped and the shutdown
\* has reported and returned
C25_Witness ==
    /\ cleanup_pc = "done"
    /\ Len(report_log) = 1
    /\ Len(swap_log) > 0
    /\ \E i \in DOMAIN delta_log : delta_log[i] = "llm"
    /\ DOMAIN usage = {"llm:openai/gpt-4o"}
    /\ usage["llm:openai/gpt-4o"].total_units = 380
    /\ usage["llm:openai/gpt-4o"].event_count = 2

\* C29 as stated: report() makes no call and succeeds when the tracker has
\* no usage, makes no call and fails when no API key is set, and otherwise
\* makes exactly one POST and succeeds iff the response status is 200.
C29_SuccessIffStatus200 ==
    probe.stage = "report" =>
        LET outcome == probe.outcome
        IN IF ~probe.used THEN outcome.posts = 0 /\ outcome.result
           ELSE IF ~probe.key THEN outcome.posts = 0 /\ ~outcome.result
           ELSE /\ outcome.posts = 1
                /\ outcome.result <=>
                      (outcome.response.arrived /\ outcome.response.status = 200)

\* C29 amended: as above, but with one POST made the call succeeds iff the
\* response status is 200 and the response body parses as a JSON object.
C29_SuccessIffParsed200 ==
    probe.stage = "report" =>
        LET outcome == probe.outcome
        IN IF ~probe.used THEN outcome.posts = 0 /\ outcome.result
           ELSE IF ~probe.key THEN outcome.posts = 0 /\ ~outcome.result
           ELSE /\ outcome.posts = 1
                /\ outcome.result <=>
                      /\ outcome.response.arrived
                      /\ outcome.response.status = 200
                      /\ outcome.response.body = "object"

\* report() has POSTed the usage of a tracker and was answered with status
\* 200 and a body that is no JSON
C29_Witness ==
    /\ probe.stage = "report"
    /\ probe.used /\ probe.key
    /\ probe.outcome.posts = 1
    /\ probe.outcome.response.status = 200
    /\ probe.outcome.response.body = "text"
    /\ ~probe.outcome.result

\* C30: billing failures never affect the session: for every answer of the
\* credits endpoint that is a failure (no connection, a status other than
\* 200, a malformed body) report() returns failure to cleanup(), the step
\* in which it returns leaves the current agent, the identity and the usage
\* map as they were, and cleanup() still returns with every cleanup task
\* completed, none tracked, and the current agent's memory closed.
C30_BillingFailureHarmless ==
    /\ [](\A i \in DOMAIN report_log :
            (report_log[i].response.status # 200
                \/ report_log[i].response.body # "object")
            => ~report_log[i].result)
    /\ []((cleanup_pc = "done" /\ \E i \in DOMAIN report_log : ~report_log[i].result)
            => /\ \A t \in DOMAIN tasks : tasks[t].status = "done"
               /\ _cleanup_tasks = <<>>
               /\ current_memory # NoMemory
                     => memories[current_memory].close_calls >= 1)
    /\ [][(cleanup_pc = "report" /\ cleanup_pc' # "report")
            => /\ current_agent' = current_agent
               /\ user_identity' = user_identity
               /\ usage' = usage]_vars

(***************************************************************************)
(* Properties of the shutdown (SpecShutdown) and of concurrent handlers.   *)
(***************************************************************************)
\* C32: a started cleanup() eventually returns, whatever deltas came before
\* and come during it, also when cleanup tasks raise and the credits
\* endpoint cannot be reached.
C32_CleanupTerminates == (cleanup_pc # "idle") ~> (cleanup_pc = "done")

\* cleanup() has returned after the last delta, a cleanup task whose close
\* raised, and a report that met no connection
C32_Witness ==
    /\ cleanup_pc = "done"
    /\ \E t \in DOMAIN tasks : tasks[t].raised
    /\ Len(report_log) = 1 /\ ~report_log[1].response.arrived
    /\ Len(delta_log) = MaxDeltas

\* C31: cleanup() invokes the reporter exactly once iff, once a missing
\* identity has been taken from the current agent's config, there are an
\* identity, a room name and a total that is not zero; otherwise it never
\* invokes it.  The invocations are the reports returned plus the one
\* cleanup() is suspended in.
C31_ReportIffIdentityRoomUsage ==
    /\ [](Len(report_log) + (IF cleanup_pc = "report" THEN 1 ELSE 0) <= 1)
    /\ [](cleanup_pc = "idle" => report_log = <<>>)
    /\ [][LET config == agents[current_agent].kwami_config
              identity == IF ~Truthy(user_identity) /\ Truthy(config.kwami_id)
                          THEN config.kwami_id ELSE user_identity
              wanted == /\ Truthy(identity)
                        /\ Truthy(room_name)
                        /\ \E k \in DOMAIN usage : usage[k].total_units # 0
              invoked == Len(report_log) + (IF cleanup_pc = "report" THEN 1 ELSE 0)
              invoked_next == Len(report_log') + (IF cleanup_pc' = "report" THEN 1 ELSE 0)
          IN IF cleanup_pc = "idle" /\ cleanup_pc' # "idle"
             THEN invoked_next = (IF wanted THEN 1 ELSE 0)
             ELSE invoked_next = invoked]_vars

\* a session that started without identity has taken it from a config, has
\* recorded usage, and its shutdown has reported once
C31_Witness ==
    /\ cleanup_pc = "done"
    /\ Len(report_log) = 1
    /\ user_identity = "kwami-1"
    /\ \E i \in DOMAIN swap_log : swap_log[i].committed

\* C39: in a session started through entrypoint, with an identity known
\* (from a participant or from a config's kwamiId) and a total that is not
\* zero when the session ends, cleanup() invokes the reporter once, with
\* that identity and the room name.
C39_EntrypointReports ==
    [][(/\ cleanup_pc = "idle" /\ cleanup_pc' # "idle"
        /\ Truthy(user_identity')
        /\ \E k \in DOMAIN usage : usage[k].total_units # 0)
       => /\ Truthy(room_name)
          /\ cleanup_pc' = "report" \/ Len(report_log') = 1]_vars

\* C33: if the close of an outgoing memory raises in its cleanup task, then
\* when cleanup() returns every other cleanup task has still been awaited
\* to its end and the current agent's memory has still been closed
\* (cleanup() returning is cleanup() raising nothing).
C33_RaisingCloseSuppressed ==
    (cleanup_pc = "done" /\ \E t \in DOMAIN tasks : tasks[t].raised)
        => /\ \A t \in DOMAIN tasks : tasks[t].status = "done"
           /\ current_memory # NoMemory
                 => memories[current_memory].close_calls >= 1

\* C34: when cleanup() and the config handlers that ran beside it have all
\* finished (none is left suspended in the memory open, and no factory or
\* swap has raised), every scheduled cleanup task has been awaited to its
\* end and is tracked no more, and every memory that was opened has been
\* closed once and only once.
C34_TeardownBesideDeltas ==
    (/\ cleanup_pc = "done"
     /\ pending_full = <<>>
     /\ \A k \in DOMAIN factory_log : factory_log[k].committed)
        => /\ \A t \in DOMAIN tasks : tasks[t].status = "done"
           /\ _cleanup_tasks = <<>>
           /\ \A m \in DOMAIN memories : memories[m].close_calls = 1

\* C35: deltas take effect in the order they were received: once no
\* full-config handler is suspended any more, the instance that is current
\* was built for the latest-received delta among those whose swap was
\* committed, also when an earlier full config was suspended in the memory
\* open while a later delta completed.
C35_ArrivalOrder ==
    LET swapped == {k \in DOMAIN factory_log : factory_log[k].committed}
    IN (pending_full = <<>> /\ swapped # {})
          => LET last == CHOOSE k \in swapped : \A j \in swapped : j <= k
             IN \A j \in swapped : factory_log[j].delta <= factory_log[last].delta

\* C36: under every interleaving of concurrent full-config handlers at most
\* one instance that became current was constructed with greeting
\* suppression off, greeting_delivered never goes from true back to false,
\* and voice and llm replacements always construct with suppression on and
\* leave the flag as it was.
C36_GreetingOnce ==
    /\ [](Cardinality({k \in DOMAIN factory_log :
                          factory_log[k].committed /\ ~factory_log[k].skip_greeting}) <= 1)
    /\ [](\A k \in DOMAIN factory_log :
             factory_log[k].source \in {"voice", "llm"} => factory_log[k].skip_greeting)
    /\ [][/\ greeting_delivered => greeting_delivered'
          /\ (/\ Len(factory_log') = Len(factory_log) + 1
              /\ factory_log'[Len(factory_log')].source \in {"voice", "llm"})
                => greeting_delivered' = greeting_delivered]_vars

\* two full configs were in flight together, the later-received one swapped
\* first with the greeting and the earlier-received one after it without
C36_Witness ==
    /\ Len(factory_log) = 2
    /\ \A k \in DOMAIN factory_log :
          factory_log[k].source = "full" /\ factory_log[k].committed
    /\ factory_log[1].delta = 2 /\ ~factory_log[1].skip_greeting
    /\ factory_log[2].delta = 1 /\ factory_log[2].skip_greeting
    /\ greeting_delivered

\* C37: after a voice delta that is patched in place, the stored tts_voice
\* and tts_speed differ from what they were only where the new value was
\* sent in a live option update of the TTS that returned; they are
\* unchanged when the update was skipped, rejected or raised.
C37_StoredFollowsSent ==
    [][(delta_log' # delta_log /\ last_op'.op = "voice" /\ last_op'.path = "patch")
          => LET old == agents[current_agent].kwami_config.voice
                 new == agents'[current_agent'].kwami_config.voice
                 sent == {live_updates'[i].updates :
                             i \in {j \in DOMAIN live_updates' :
                                       /\ j > Len(live_updates)
                                       /\ live_updates'[j].target = "tts"
                                       /\ live_updates'[j].returned}}
             IN /\ new.tts_voice # old.tts_voice
                      => \E u \in sent : \E k \in DOMAIN u \cap {"voice", "voice_id"} :
                            u[k] = new.tts_voice
                /\ new.tts_speed # old.tts_speed
                      => \E u \in sent : "speed" \in DOMAIN u /\ u.speed = new.tts_speed]_vars

\* C38: a voice delta whose stt_provider is the stored one and whose
\* stt_model, once its provider prefix is stripped, is the stored STT model
\* does not replace the instance (when its TTS part replaces nothing
\* either): the factory is not called and the current instance stays.
C38_SameSttModelKept ==
    [][LET config == last_op'.config
       IN (/\ voice_delta
           /\ GetTruthy(config, "stt_provider")
           /\ config.stt_provider = current_voice.stt_provider
           /\ GetTruthy(config, "stt_model")
           /\ strip_model_prefix(config.stt_model, config.stt_provider)
                 = current_voice.stt_model
           /\ ~replaces_tts(current_voice, config))
             => /\ factory_log' = factory_log
                /\ current_agent' = current_agent]_vars

====
